---- MODULE Spec2Model ----
(***************************************************************************)
(* Map / waypoint synchronisation layer of the heimursaga mobile client:   *)
(* the explore screen (ExploreScreen.tsx), the journal screen              *)
(* (JournalScreen, src/unnamed/part_006) and the MapView component.        *)
(***************************************************************************)
EXTENDS Integers, Sequences, FiniteSets, TLC

(***************************************************************************)
(* JavaScript values                                                       *)
(*   an optional number is <<>> (undefined) or <<n>>                       *)
(***************************************************************************)
Undef == <<>>

Num(n) == <<n>>

\* JS truthiness of an optional number: undefined and 0 are falsy
Truthy(x) == x /= Undef /\ x[1] /= 0

\* a || b on optional numbers
OrElse(a, b) == IF Truthy(a) THEN a ELSE b

\* `${x}` of an optional number
NumStr(x) == IF x = Undef THEN "undefined" ELSE ToString(x[1])

\* x >= y and x <= y; every comparison with undefined is false
Geq(x, y) == x /= Undef /\ y /= Undef /\ x[1] >= y[1]

Leq(x, y) == x /= Undef /\ y /= Undef /\ x[1] <= y[1]

\* a waypoint record as the map API returns it: id is the waypoint's own id,
\* hasPost/postId the backing post ("" when there is none), likesCount the
\* engagement count carried by the record; date is waypoint.date, and
\* postDate, postLat, postLon are post.date, post.lat, post.lon
WP(id, hasPost, postId, lat, lon, likes) ==
    [id |-> id, hasPost |-> hasPost, postId |-> postId,
     lat |-> lat, lon |-> lon, likesCount |-> likes,
     date |-> Undef, postDate |-> Undef, postLat |-> Undef, postLon |-> Undef]

\* a waypoint of a trip, as api.trips.getTripById returns it: the post, when
\* there is one, is a summary without date and coordinates
TripWP(id, hasPost, postId, lat, lon, date) ==
    [WP(id, hasPost, postId, lat, lon, 0) EXCEPT !.date = date]

(***************************************************************************)
(* JS Map<string, any>: a sequence of [key, value] pairs in insertion      *)
(* order, at most one pair per key                                         *)
(***************************************************************************)
EmptyMap == <<>>

MapKeys(m) == {m[i].key : i \in 1..Len(m)}

MapHas(m, k) == k \in MapKeys(m)

MapGet(m, k) == m[CHOOSE i \in 1..Len(m) : m[i].key = k].value

MapValues(m) == [i \in 1..Len(m) |-> m[i].value]

\* Map.prototype.set: replaces the value in place, or appends a new pair
MapSet(m, k, v) ==
    IF MapHas(m, k)
    THEN [i \in 1..Len(m) |-> IF m[i].key = k THEN [key |-> k, value |-> v] ELSE m[i]]
    ELSE Append(m, [key |-> k, value |-> v])

\* mutant: every record is appended, an existing key is not looked up
MapSetAppend(m, k, v) == Append(m, [key |-> k, value |-> v])

\* mutant: the first write wins, an existing key keeps its record
MapSetKeepFirst(m, k, v) ==
    IF MapHas(m, k) THEN m ELSE Append(m, [key |-> k, value |-> v])

\* mutant: the key ignores the post and is always built from the coordinates
StableKeyCoordsOnly(w) == NumStr(w.lat) \o "_" \o NumStr(w.lon)

\* waypoint.post?.id || `${waypoint.lat}_${waypoint.lon}`
StableKey(w) ==
    IF w.hasPost /\ w.postId /= ""
    THEN w.postId
    ELSE NumStr(w.lat) \o "_" \o NumStr(w.lon)

RECURSIVE MergeFrom(_, _, _)
MergeFrom(updated, page, i) ==
    IF i > Len(page) THEN updated
    ELSE MergeFrom(MapSet(updated, StableKey(page[i]), page[i]), page, i + 1)

RECURSIVE MergeAppendFrom(_, _, _)
MergeAppendFrom(updated, page, i) ==
    IF i > Len(page) THEN updated
    ELSE MergeAppendFrom(MapSetAppend(updated, StableKey(page[i]), page[i]), page, i + 1)

RECURSIVE MergeKeepFirstFrom(_, _, _)
MergeKeepFirstFrom(updated, page, i) ==
    IF i > Len(page) THEN updated
    ELSE MergeKeepFirstFrom(MapSetKeepFirst(updated, StableKey(page[i]), page[i]), page, i + 1)

\* mutant of MergePage: append instead of upsert
MergePageAppend(prev, page) == MergeAppendFrom(prev, page, 1)

\* mutant of MergePage: first write wins
MergePageKeepFirst(prev, page) == MergeKeepFirstFrom(prev, page, 1)

\* mutant of MergePage: the page replaces the collection
MergePageReplace(prev, page) == MergeFrom(EmptyMap, page, 1)

\* the merge effect's updater: new Map(prev), then set() per record of the page
MergePage(prev, page) == MergeFrom(prev, page, 1)

(***************************************************************************)
(* JournalScreen: user posts -> waypoints (the coordinate normaliser)      *)
(***************************************************************************)
NoLocation == [present |-> FALSE, lat |-> Undef, latitude |-> Undef,
               lon |-> Undef, lng |-> Undef, longitude |-> Undef]

Location(lat, latitude, lon, lng, longitude) ==
    [present |-> TRUE, lat |-> lat, latitude |-> latitude,
     lon |-> lon, lng |-> lng, longitude |-> longitude]

\* a post of userPosts.data with its coordinate aliases
UserPost(id, lat, latitude, lon, lng, longitude, location, likes) ==
    [id |-> id, lat |-> lat, latitude |-> latitude, lon |-> lon, lng |-> lng,
     longitude |-> longitude, location |-> location, likesCount |-> likes]

PostLat(post) ==
    LET lat == OrElse(post.lat, post.latitude)
        lon == OrElse(OrElse(post.lon, post.lng), post.longitude)
    IN  IF ~Truthy(lat) /\ ~Truthy(lon) /\ post.location.present
        THEN OrElse(post.location.lat, post.location.latitude)
        ELSE lat

PostLon(post) ==
    LET lat == OrElse(post.lat, post.latitude)
        lon == OrElse(OrElse(post.lon, post.lng), post.longitude)
    IN  IF ~Truthy(lat) /\ ~Truthy(lon) /\ post.location.present
        THEN OrElse(OrElse(post.location.lon, post.location.lng), post.location.longitude)
        ELSE lon

\* { lat: lat || 0, lon: lon || 0, date, post }
PostToWaypoint(post) ==
    WP("", TRUE, post.id, OrElse(PostLat(post), Num(0)), OrElse(PostLon(post), Num(0)),
       post.likesCount)

\* userWaypoints: map, then drop the waypoints with a zero coordinate
UserWaypoints(posts) ==
    SelectSeq([i \in 1..Len(posts) |-> PostToWaypoint(posts[i])],
              LAMBDA w : w.lat /= Num(0) /\ w.lon /= Num(0))

\* the journal's merge effect: skipped when userWaypoints is empty
JournalMergePage(prev, userWaypoints) ==
    IF Len(userWaypoints) > 0 THEN MergePage(prev, userWaypoints) ELSE prev

(***************************************************************************)
(* Map viewport                                                            *)
(***************************************************************************)
\* MapboxGL getVisibleBounds(): bounds[0] = [lon, lat] and bounds[1] = [lon, lat]
VisibleBounds(lon0, lat0, lon1, lat1) == <<<<lon0, lat0>>, <<lon1, lat1>>>>

Max(a, b) == IF a >= b THEN a ELSE b

Min(a, b) == IF a <= b THEN a ELSE b

NoBounds == [present |-> FALSE, ne |-> [lat |-> 0, lon |-> 0], sw |-> [lat |-> 0, lon |-> 0]]

\* MapViewRef.getCurrentBounds(): null until the map is ready, else
\* { ne: {lat, lon}, sw: {lat, lon} } with the corners put in order
GetCurrentBounds(ready, bounds) ==
    IF ~ready THEN NoBounds
    ELSE [present |-> TRUE,
          ne |-> [lat |-> Max(bounds[1][2], bounds[2][2]), lon |-> Max(bounds[1][1], bounds[2][1])],
          sw |-> [lat |-> Min(bounds[1][2], bounds[2][2]), lon |-> Min(bounds[1][1], bounds[2][1])]]

\* the values the explore screen's mapBounds state can hold. ne and sw are the
\* properties mapBounds.ne / mapBounds.sw (<<>> when the value has no such
\* property), arr the elements when the value is an array
NullBounds == [isNull |-> TRUE, ne |-> <<>>, sw |-> <<>>, arr |-> <<>>]

\* { ne: [lon, lat], sw: [lon, lat] }
CornerBounds(ne, sw) == [isNull |-> FALSE, ne |-> ne, sw |-> sw, arr |-> <<>>]

\* [north, south, east, west]
ArrayBounds(north, south, east, west) ==
    [isNull |-> FALSE, ne |-> <<>>, sw |-> <<>>, arr |-> <<north, south, east, west>>]

\* updateMapBounds: what setMapBounds receives for the bounds read from the map
BoundsToStore(b) == ArrayBounds(b.ne.lat, b.sw.lat, b.ne.lon, b.sw.lon)

\* ExploreScreen.visibleWaypoints
VisibleWaypoints(all, mb) ==
    IF mb.isNull \/ mb.ne = <<>> \/ mb.sw = <<>>
    THEN MapValues(all)
    ELSE LET north == Num(mb.ne[2])
             south == Num(mb.sw[2])
             east  == Num(mb.ne[1])
             west  == Num(mb.sw[1])
         IN  SelectSeq(MapValues(all),
                       LAMBDA w : /\ Geq(w.lat, south) /\ Leq(w.lat, north)
                                  /\ Geq(w.lon, west)  /\ Leq(w.lon, east))

\* JournalScreen.updateVisibleEntries: the list it passes to setVisibleEntries
JournalVisible(waypointsToFilter, bounds) ==
    LET swLat == bounds.sw.lat
        swLon == bounds.sw.lon
        neLat == bounds.ne.lat
        neLon == bounds.ne.lon
    IN  IF /\ bounds.present /\ Len(waypointsToFilter) > 0
           /\ swLat /= 0 /\ swLon /= 0 /\ neLat /= 0 /\ neLon /= 0
        THEN SelectSeq(waypointsToFilter,
                       LAMBDA w : /\ Geq(w.lat, Num(swLat)) /\ Leq(w.lat, Num(neLat))
                                  /\ Geq(w.lon, Num(swLon)) /\ Leq(w.lon, Num(neLon)))
        ELSE waypointsToFilter

(***************************************************************************)
(* State                                                                   *)
(***************************************************************************)
VARIABLES
    \* which screen is mounted, and the last operation of note: a write of the
    \* explore screen's merged collection (a merge or one of the resets) or an
    \* event of the drawer (a press, the name of a released drag, a close, a
    \* settled detail fetch)
    screen, lastOp,
    \* MapView: isMapReady and the region the native map shows
    mapReady, mapRegion,
    \* ExploreScreen state
    allWaypoints, mapBounds, filterMode, hasEverSearched, showSearchOverlay,
    shouldLoadWaypoints, isMapAnimating, hasMapInteracted, showListView,
    selectedWaypoint, isCenteringFromWaypoint, centerTimers, animTimers, closeAnims,
    \* the ['map-waypoints', bounds, filterMode] query: cached data per key,
    \* keys being fetched, the data the merge effect last ran for
    queryCache, inflight, effectSeen, fetchCount,
    \* JournalScreen state
    selectedEntry, activeTab, isJourneyMode, selectedJourney, journeyWaypoints,
    visibleEntries, mapWaypoints, visTimer, journeyCalls, initialMapState,
    \* merge applied to a sequence of pages
    mColl, mPrev, mPage, mPrevPage, mCount,
    \* stableKey applied to two records
    kKind, kA, kB, kOutA, kOutB, kStage,
    \* the viewport filters applied to a collection and a viewport
    fColl, fBounds, fOut, fStage,
    \* the detail drawer of either screen; detailCalls: the getPostById calls
    \* in flight, each with the record its handler closed over
    isExpanded, isDrawerVisible, shouldRenderDrawer, isClosingAnimated,
    isLoadingExpanded, fullEntryData, detailCalls,
    \* the enrichment and sort of enterJourneyMode applied to a trip's waypoints
    lRaw, lEnriched, lOut, lStage,
    \* the coordinate normalisers applied to a raw post
    nPost, nBookmark, nJournal, nStage,
    \* the alerts shown so far, by title
    alerts,
    \* on record in SpecOrder: the waypoint fetches in flight in the order they
    \* were issued, each with whether a fetch issued later has resolved; with
    \* them, until the next fetch starts or settles, the fetch that resolved
    \* after a later one
    issueOrder,
    \* the journey of the last call of enterJourneyMode
    lastEntered,
    \* useEngagement of the mounted card of one post: state, loading, the
    \* initialState the card was mounted with, the like and bookmark requests
    \* in flight
    eState, eLoading, eInitial, eCalls,
    \* ProfileOverlay: the follow button
    isFollowing, isFollowLoading, followCalls,
    \* LogEntryScreen: the submission
    isSubmitting, submitCalls,
    \* the search box of ExploreScreen / MapLocationSelectScreen: the text, the
    \* timers pending (searchTimeoutRef holding the id of the last one), the
    \* geocoding requests in flight and all those issued so far
    searchQuery, searchTimers, searchTimeoutRef, timerCount, searchCalls, searchIssued,
    searchResults, showSearchResults, isSearching

varsMap == <<mapReady, mapRegion>>

varsExplore ==
    <<allWaypoints, mapBounds, filterMode, hasEverSearched, showSearchOverlay,
      shouldLoadWaypoints, isMapAnimating, hasMapInteracted, showListView,
      selectedWaypoint, isCenteringFromWaypoint, centerTimers, animTimers, closeAnims,
      queryCache, inflight, effectSeen, fetchCount>>

varsJournal ==
    <<selectedEntry, activeTab, isJourneyMode, selectedJourney, journeyWaypoints,
      visibleEntries, mapWaypoints, visTimer, journeyCalls, initialMapState>>

\* the explore screen's state without hasMapInteracted, a state both screens have
varsExploreOnly ==
    <<allWaypoints, mapBounds, filterMode, hasEverSearched, showSearchOverlay,
      shouldLoadWaypoints, isMapAnimating, showListView,
      selectedWaypoint, isCenteringFromWaypoint, centerTimers, animTimers, closeAnims,
      queryCache, inflight, effectSeen, fetchCount>>

varsMerge == <<mColl, mPrev, mPage, mPrevPage, mCount>>

varsKey == <<kKind, kA, kB, kOutA, kOutB, kStage>>

varsFilter == <<fColl, fBounds, fOut, fStage>>

varsDrawer ==
    <<isExpanded, isDrawerVisible, shouldRenderDrawer, isClosingAnimated,
      isLoadingExpanded, fullEntryData, detailCalls>>

varsLoad == <<lRaw, lEnriched, lOut, lStage>>

varsNorm == <<nPost, nBookmark, nJournal, nStage>>

\* the state of the components other than the two map screens
varsEngage == <<eState, eLoading, eInitial, eCalls>>

varsFollow == <<isFollowing, isFollowLoading, followCalls>>

varsSubmit == <<isSubmitting, submitCalls>>

varsSearch ==
    <<searchQuery, searchTimers, searchTimeoutRef, timerCount, searchCalls, searchIssued,
      searchResults, showSearchResults, isSearching>>

varsMutations == <<varsNorm, alerts, varsEngage, varsFollow, varsSubmit, varsSearch>>

varsRest == <<varsMutations, issueOrder, lastEntered>>

vars ==
    <<screen, lastOp, varsMap, varsExplore, varsJournal, varsMerge, varsKey, varsFilter,
      varsDrawer, varsLoad, varsRest>>

(***************************************************************************)
(* Inputs                                                                  *)
(***************************************************************************)
\* records of the merge scenario: post "a" fetched twice, the second time
\* with likesCount 5
RecA0 == WP("w1", TRUE, "a", Num(10), Num(20), 0)

RecA5 == WP("w1", TRUE, "a", Num(10), Num(20), 5)

RecB == WP("w2", TRUE, "b", Num(60), Num(5), 0)

RecBare == WP("w3", FALSE, "", Num(45), Num(-5), 0)

MergeRecords == {RecA0, RecA5, RecB, RecBare}

MergePages ==
    {<<>>} \cup {<<r>> : r \in MergeRecords} \cup {<<r, q>> : r, q \in MergeRecords}

\* user posts: "a" with its coordinates under lat/lon, "a" again under
\* latitude/lng with another like count, "c" with no coordinates at all,
\* "d" with its coordinates under location
PostA1 == UserPost("a", Num(10), Undef, Num(20), Undef, Undef, NoLocation, 0)

PostA2 == UserPost("a", Undef, Num(10), Undef, Num(20), Undef, NoLocation, 5)

PostC == UserPost("c", Undef, Undef, Undef, Undef, Undef, NoLocation, 0)

PostD == UserPost("d", Undef, Undef, Undef, Undef, Undef,
                  Location(Undef, Num(45), Undef, Undef, Num(-5)), 0)

PostLists == {<<PostA1, PostD>>, <<PostA2>>, <<PostC>>, <<PostC, PostA1, PostA2>>}

(***************************************************************************)
(* The parts of the state a specification does not use                     *)
(***************************************************************************)
IdleMap == mapReady = FALSE /\ mapRegion = VisibleBounds(0, 0, 0, 0)

IdleExplore ==
    /\ allWaypoints = EmptyMap /\ mapBounds = NullBounds /\ filterMode = "global"
    /\ hasEverSearched = FALSE /\ showSearchOverlay = TRUE
    /\ shouldLoadWaypoints = FALSE /\ isMapAnimating = FALSE
    /\ hasMapInteracted = FALSE /\ showListView = FALSE
    /\ selectedWaypoint = <<>> /\ isCenteringFromWaypoint = FALSE
    /\ centerTimers = 0 /\ animTimers = 0 /\ closeAnims = 0
    /\ queryCache = {} /\ inflight = {} /\ effectSeen = <<>> /\ fetchCount = 0

IdleJournal ==
    /\ selectedEntry = <<>> /\ activeTab = "entries" /\ isJourneyMode = FALSE
    /\ selectedJourney = <<>> /\ journeyWaypoints = <<>> /\ visibleEntries = <<>>
    /\ mapWaypoints = <<>> /\ visTimer = FALSE /\ journeyCalls = <<>>
    /\ initialMapState = <<>>

IdleMerge ==
    /\ mColl = EmptyMap /\ mPrev = EmptyMap /\ mPage = <<>> /\ mPrevPage = <<>>
    /\ mCount = 0

IdleKey ==
    /\ kKind = "none" /\ kA = RecA0 /\ kB = RecA0 /\ kOutA = <<>> /\ kOutB = <<>>
    /\ kStage = "in"

IdleFilter ==
    /\ fColl = <<>> /\ fBounds = VisibleBounds(0, 0, 0, 0) /\ fOut = <<>> /\ fStage = "in"

IdleDrawer ==
    /\ isExpanded = FALSE /\ isDrawerVisible = FALSE /\ shouldRenderDrawer = FALSE
    /\ isClosingAnimated = FALSE /\ isLoadingExpanded = FALSE
    /\ fullEntryData = <<>> /\ detailCalls = <<>>

IdleLoad == lRaw = <<>> /\ lEnriched = {} /\ lOut = <<>> /\ lStage = "in"

IdleNorm == nPost = <<>> /\ nBookmark = <<>> /\ nJournal = <<>> /\ nStage = "in"

NoEngagement == [liked |-> FALSE, likesCount |-> 0, bookmarked |-> FALSE, bookmarksCount |-> 0]

NotLoading == [like |-> FALSE, bookmark |-> FALSE]

IdleEngage ==
    /\ eState = NoEngagement /\ eLoading = NotLoading /\ eInitial = NoEngagement
    /\ eCalls = <<>>

IdleFollow == isFollowing = FALSE /\ isFollowLoading = FALSE /\ followCalls = <<>>

IdleSubmit == isSubmitting = FALSE /\ submitCalls = 0

IdleSearch ==
    /\ searchQuery = <<>> /\ searchTimers = {} /\ searchTimeoutRef = 0 /\ timerCount = 0
    /\ searchCalls = <<>> /\ searchIssued = <<>> /\ searchResults = <<>>
    /\ showSearchResults = FALSE /\ isSearching = FALSE

IdleRest ==
    /\ IdleNorm /\ alerts = <<>> /\ IdleEngage /\ IdleFollow /\ IdleSubmit /\ IdleSearch
    /\ issueOrder = <<>> /\ lastEntered = <<>>

(***************************************************************************)
(* SpecMerge: the merge effects applied to any sequence of pages           *)
(***************************************************************************)
MaxMerges == 3

InitMerge ==
    /\ screen = "none" /\ lastOp = "init"
    /\ IdleMap /\ IdleExplore /\ IdleJournal /\ IdleMerge /\ IdleKey /\ IdleFilter /\ IdleDrawer /\ IdleLoad /\ IdleRest

\* ExploreScreen: the effect on [recentWaypoints] merges recentWaypoints.waypoints
ExploreMergeStep(page) ==
    /\ mCount < MaxMerges
    /\ mPrev' = mColl
    /\ mColl' = MergePage(mColl, page)
    /\ mPrevPage' = mPage
    /\ mPage' = page
    /\ mCount' = mCount + 1
    /\ UNCHANGED lastOp
    /\ UNCHANGED <<screen, varsMap, varsExplore, varsJournal, varsKey, varsFilter, varsDrawer, varsLoad, varsRest>>

\* JournalScreen: userPosts -> userWaypoints -> the effect on [userWaypoints]
JournalMergeStep(posts) ==
    /\ mCount < MaxMerges
    /\ mPrev' = mColl
    /\ mColl' = JournalMergePage(mColl, UserWaypoints(posts))
    /\ mPrevPage' = mPage
    /\ mPage' = UserWaypoints(posts)
    /\ mCount' = mCount + 1
    /\ UNCHANGED lastOp
    /\ UNCHANGED <<screen, varsMap, varsExplore, varsJournal, varsKey, varsFilter, varsDrawer, varsLoad, varsRest>>

NextMerge ==
    \/ \E page \in MergePages : ExploreMergeStep(page)
    \/ \E posts \in PostLists : JournalMergeStep(posts)

SpecMerge == InitMerge /\ [][NextMerge]_vars

\* What the claims call a record's identity: its post id when it has one,
\* else its coordinates
Identity(w) ==
    IF w.hasPost /\ w.postId /= "" THEN <<"post", w.postId>> ELSE <<"coords", w.lat, w.lon>>

\* the last record of a page with the identity of its i-th record
LastWithIdentity(page, i) ==
    LET j == CHOOSE j \in i..Len(page) :
                 /\ Identity(page[j]) = Identity(page[i])
                 /\ \A l \in (j + 1)..Len(page) : Identity(page[l]) /= Identity(page[i])
    IN  page[j]

\* C1: merging the page just merged once more leaves the collection as it
\* was: merge(merge(C, P), P) = merge(C, P), same keys in the same order with
\* the same record per key.
C1_MergeIdempotent ==
    (mCount >= 2 /\ mPage = mPrevPage) => mColl = mPrev

\* C1 witness: a page of two records was merged twice into a collection that
\* already held a third record.
C1_Witness ==
    /\ mCount = 3 /\ mPage = mPrevPage /\ mPage = <<RecA5, RecB>>
    /\ MapHas(mColl, "45_-5") /\ Len(mColl) = 3

\* C2: the merge is an upsert with last-write-wins: every identity of the last
\* merged page maps to that page's (last) record of the identity, no two
\* entries share an identity, and merging [a] and then [a with likesCount 5]
\* gives one entry whose likesCount is 5.
C2_LastWriteWins ==
    mCount >= 1 =>
        /\ \A i \in 1..Len(mPage) :
               \E e \in 1..Len(mColl) :
                   /\ Identity(mColl[e].value) = Identity(mPage[i])
                   /\ mColl[e].value = LastWithIdentity(mPage, i)
        /\ \A e1, e2 \in 1..Len(mColl) :
               Identity(mColl[e1].value) = Identity(mColl[e2].value) => e1 = e2
        /\ (mCount = 2 /\ mPrevPage = <<RecA0>> /\ mPage = <<RecA5>>) =>
               (Len(mColl) = 1 /\ mColl[1].value.likesCount = 5)

\* C2 witness: the spec's scenario, post "a" merged and merged again with
\* likesCount 5.
C2_Witness ==
    /\ mCount = 2 /\ mPrevPage = <<RecA0>> /\ mPage = <<RecA5>>
    /\ Len(mColl) = 1 /\ mColl[1].value.likesCount = 5

(***************************************************************************)
(* SpecKey: stableKey applied to two records                               *)
(***************************************************************************)
\* raw explore records: post "a", post "b", a post with an empty id, or no
\* post; the coordinates present, zero or missing
KeyRecords ==
    {WP("", hasPost, postId, lat, lon, 0) :
        hasPost \in BOOLEAN, postId \in {"", "a", "b"},
        lat \in {Undef, Num(0), Num(10)}, lon \in {Undef, Num(20)}}

\* user posts: ids "a" and "b", the coordinates under different aliases
KeyPosts ==
    {UserPost(id, lat, latitude, lon, Undef, longitude, NoLocation, 0) :
        id \in {"a", "b"}, lat \in {Undef, Num(10)}, latitude \in {Undef, Num(11)},
        lon \in {Undef, Num(20)}, longitude \in {Num(21)}}

InitKey ==
    /\ screen = "none" /\ lastOp = "init"
    /\ IdleMap /\ IdleExplore /\ IdleJournal /\ IdleMerge /\ IdleFilter /\ IdleDrawer /\ IdleLoad /\ IdleRest
    /\ \/ kKind = "explore" /\ kA \in {r \in KeyRecords : r.hasPost \/ r.postId = ""}
                            /\ kB \in {r \in KeyRecords : r.hasPost \/ r.postId = ""}
       \/ kKind = "journal" /\ kA \in KeyPosts /\ kB \in KeyPosts
    /\ kOutA = <<>> /\ kOutB = <<>> /\ kStage = "in"

\* ExploreScreen merge effect: the key of each record of the page
ExploreKeys ==
    /\ kStage = "in" /\ kKind = "explore"
    /\ kOutA' = <<StableKey(kA)>>
    /\ kOutB' = <<StableKey(kB)>>
    /\ kStage' = "done"
    /\ UNCHANGED lastOp
    /\ UNCHANGED <<screen, kKind, kA, kB, varsMap, varsExplore, varsJournal, varsMerge, varsFilter, varsDrawer, varsLoad, varsRest>>

\* the key the journal's merge gives a post: none when userWaypoints drops it
JournalKeyOf(post) ==
    LET ws == UserWaypoints(<<post>>)
    IN  IF Len(ws) = 0 THEN <<>> ELSE <<StableKey(ws[1])>>

\* JournalScreen: userWaypoints, then the merge effect's key per waypoint
JournalKeys ==
    /\ kStage = "in" /\ kKind = "journal"
    /\ kOutA' = JournalKeyOf(kA)
    /\ kOutB' = JournalKeyOf(kB)
    /\ kStage' = "done"
    /\ UNCHANGED lastOp
    /\ UNCHANGED <<screen, kKind, kA, kB, varsMap, varsExplore, varsJournal, varsMerge, varsFilter, varsDrawer, varsLoad, varsRest>>

NextKey == ExploreKeys \/ JournalKeys

SpecKey == InitKey /\ [][NextKey]_vars

\* the post id of an input record, "" when it has none
InputPostId(r) == IF kKind = "explore" THEN (IF r.hasPost THEN r.postId ELSE "") ELSE r.id

\* lat and lon of a raw explore record as the template string prints them
CoordText(x) == IF x = Undef THEN "undefined" ELSE ToString(x[1])

\* C5: two records with the same post id get the same key whatever their
\* coordinate fields hold; an explore record without a post id gets the key
\* built from its lat and lon, and every explore record gets a key.
C5_IdentityStable ==
    kStage = "done" =>
        /\ (InputPostId(kA) /= "" /\ InputPostId(kA) = InputPostId(kB)
              /\ kOutA /= <<>> /\ kOutB /= <<>>) => kOutA = kOutB
        /\ InputPostId(kA) /= "" /\ kOutA /= <<>> => kOutA = <<InputPostId(kA)>>
        /\ kKind = "explore" =>
              /\ kOutA /= <<>> /\ kOutB /= <<>>
              /\ InputPostId(kA) = "" =>
                    kOutA = <<CoordText(kA.lat) \o "_" \o CoordText(kA.lon)>>

\* C5 witness: two explore records of post "a", one with its latitude and one
\* without, got the same key; and two posts of id "a" with their coordinates
\* under different aliases did as well.
C5_Witness ==
    /\ kStage = "done" /\ kKind = "explore"
    /\ kA.hasPost /\ kA.postId = "a" /\ kB.hasPost /\ kB.postId = "a"
    /\ kA.lat = Num(10) /\ kB.lat = Undef
    /\ kOutA = <<"a">> /\ kOutB = <<"a">>

(***************************************************************************)
(* SpecFilter: the two viewport filters applied to a collection            *)
(***************************************************************************)
\* the records of the viewport scenario: inside, outside to the north,
\* outside to the west
WIn == WP("w1", TRUE, "a", Num(45), Num(5), 0)

WNorth == WP("w2", TRUE, "b", Num(60), Num(5), 0)

WWest == WP("w3", FALSE, "", Num(45), Num(-5), 0)

FilterColls == {<<>>, <<WIn>>, <<WNorth, WWest>>, <<WIn, WNorth, WWest>>, <<WWest, WIn>>}

FilterLats == {-40, 0, 40, 50}

FilterLons == {-10, 0, 10}

InitFilter ==
    /\ screen = "none" /\ lastOp = "init"
    /\ IdleMap /\ IdleExplore /\ IdleJournal /\ IdleMerge /\ IdleKey /\ IdleDrawer /\ IdleLoad /\ IdleRest
    /\ fColl \in FilterColls
    /\ \E south, north \in FilterLats : \E west, east \in FilterLons :
           /\ south <= north /\ west <= east
           /\ fBounds = VisibleBounds(west, south, east, north)
    /\ fOut = <<>> /\ fStage = "in"

\* ExploreScreen.visibleWaypoints on mapBounds = { ne: [lon, lat], sw: [lon, lat] }
FilterExplore ==
    /\ fStage = "in"
    /\ fOut' = VisibleWaypoints(MergePage(EmptyMap, fColl), CornerBounds(fBounds[2], fBounds[1]))
    /\ fStage' = "explore"
    /\ UNCHANGED lastOp
    /\ UNCHANGED <<screen, fColl, fBounds, varsMap, varsExplore, varsJournal, varsMerge, varsKey, varsDrawer, varsLoad, varsRest>>

\* JournalScreen.updateVisibleEntries on the bounds getCurrentBounds returns
FilterJournal ==
    /\ fStage = "in"
    /\ fOut' = JournalVisible(fColl, GetCurrentBounds(TRUE, fBounds))
    /\ fStage' = "journal"
    /\ UNCHANGED lastOp
    /\ UNCHANGED <<screen, fColl, fBounds, varsMap, varsExplore, varsJournal, varsMerge, varsKey, varsDrawer, varsLoad, varsRest>>

NextFilter == FilterExplore \/ FilterJournal

SpecFilter == InitFilter /\ [][NextFilter]_vars

\* south <= r.lat <= north and west <= r.lon <= east for a viewport
\* <<[west, south], [east, north]>>
InsideViewport(r, b) ==
    /\ r.lat /= Undef /\ r.lon /= Undef
    /\ b[1][2] <= r.lat[1] /\ r.lat[1] <= b[2][2]
    /\ b[1][1] <= r.lon[1] /\ r.lon[1] <= b[2][1]

\* C6: for every collection and viewport the filtered list holds exactly the
\* records with south <= lat <= north and west <= lon <= east; with
\* {north: 50, south: 40, east: 10, west: 0} and records at (45,5), (60,5),
\* (45,-5) it holds the first record only.
C6_FilterCorrect ==
    fStage /= "in" =>
        /\ fOut = SelectSeq(fColl, LAMBDA r : InsideViewport(r, fBounds))
        /\ (fColl = <<WIn, WNorth, WWest>> /\ fBounds = VisibleBounds(0, 40, 10, 50)) =>
               fOut = <<WIn>>

\* the explore screen's filter alone computes the list of C6
C6_ExploreFilterCorrect ==
    fStage = "explore" => fOut = SelectSeq(fColl, LAMBDA r : InsideViewport(r, fBounds))

\* the journal's filter computes the list of C6 when no edge of the viewport is 0
C6_JournalFilterNonZero ==
    (fStage = "journal" /\ fBounds[1][1] /= 0 /\ fBounds[1][2] /= 0
        /\ fBounds[2][1] /= 0 /\ fBounds[2][2] /= 0) =>
    fOut = SelectSeq(fColl, LAMBDA r : InsideViewport(r, fBounds))

(***************************************************************************)
(* Spec: one mounted screen, the explore screen or the journal             *)
(***************************************************************************)
MaxFetches == 2

MaxTimers == 1

\* waypoint presses within 1500 ms of each other
MaxPresses == 2

WIn5 == WP("w1", TRUE, "a", Num(45), Num(5), 5)

\* pages api.map.queryMap may answer with
QueryPages == {<<WIn, WNorth>>, <<WIn5, WWest>>}

\* regions the map can show: the scenario's viewport, and one to its north
RegionA == VisibleBounds(0, 40, 10, 50)

RegionB == VisibleBounds(-10, 50, 10, 70)

Regions == {RegionA, RegionB}

\* ---- ExploreScreen ------------------------------------------------------
ShouldShowOverlay == ~hasEverSearched /\ showSearchOverlay

QueryKey == [bounds |-> mapBounds, mode |-> filterMode]

\* useQuery's data for a key: <<>> while the cache has none
CacheData(k) ==
    IF \E e \in queryCache : e.key = k
    THEN <<(CHOOSE e \in queryCache : e.key = k).data>>
    ELSE <<>>

RecentWaypoints == CacheData(QueryKey)

QueryEnabled == shouldLoadWaypoints /\ ~isMapAnimating /\ ~ShouldShowOverlay

\* the effect on [recentWaypoints] has not yet run for the current data
MergePending == RecentWaypoints /= effectSeen

\* effects are flushed before the next event is handled
ExploreReady == screen = "explore" /\ ~MergePending

\* the list view's data
ExploreList == VisibleWaypoints(allWaypoints, mapBounds)

\* MapView.renderedWaypoints keeps the waypoints with non-zero coordinates
HasCoords(w) == w.lat /= Undef /\ w.lon /= Undef /\ w.lat[1] /= 0 /\ w.lon[1] /= 0

SeqToSet(q) == {q[i] : i \in 1..Len(q)}

\* updateMapBounds reads the bounds from the map and stores them; the read
\* is a short await of the native map and is taken as one step with the store
BoundsAfterUpdate(region) ==
    LET b == GetCurrentBounds(mapReady, region)
    IN  IF b.present THEN BoundsToStore(b) ELSE mapBounds

ShouldLoadAfterUpdate(region) ==
    LET b == GetCurrentBounds(mapReady, region)
    IN  IF b.present /\ (hasMapInteracted \/ hasEverSearched) THEN TRUE ELSE shouldLoadWaypoints

\* MapView: onDidFinishLoadingMap. On the journal the event is handled after
\* the effect on [activeTab, isJourneyMode] has run
MapBecomesReady ==
    /\ screen \in {"explore", "journal"}
    /\ ~(screen = "journal" /\ isJourneyMode /\ activeTab \notin {"entries", "journeys"})
    /\ ~mapReady
    /\ mapReady' = TRUE
    /\ UNCHANGED lastOp
    /\ UNCHANGED <<screen, mapRegion, varsExplore, varsJournal, varsMerge, varsKey, varsFilter, varsDrawer, varsLoad, varsRest>>

\* handleSearchResultSelect: hides the overlay, moves the camera and starts the
\* 2000 ms timer; the collection is left as it is
SearchResultSelect(region) ==
    /\ ExploreReady
    /\ animTimers < MaxTimers
    /\ showSearchOverlay' = FALSE
    /\ hasEverSearched' = TRUE
    /\ isMapAnimating' = TRUE
    /\ mapRegion' = IF mapReady THEN region ELSE mapRegion
    /\ animTimers' = animTimers + 1
    /\ UNCHANGED lastOp
    /\ UNCHANGED <<screen, mapReady, allWaypoints, mapBounds, filterMode, shouldLoadWaypoints,
                   hasMapInteracted, showListView, selectedWaypoint, isCenteringFromWaypoint,
                   centerTimers, queryCache, inflight, effectSeen, fetchCount,
                   closeAnims, varsJournal, varsMerge, varsKey, varsFilter, varsDrawer, varsLoad, varsRest>>

\* the 2000 ms timer of handleSearchResultSelect
AnimationDone ==
    /\ ExploreReady
    /\ animTimers > 0
    /\ animTimers' = animTimers - 1
    /\ isMapAnimating' = FALSE
    /\ shouldLoadWaypoints' = TRUE
    /\ mapBounds' = BoundsAfterUpdate(mapRegion)
    /\ UNCHANGED lastOp
    /\ UNCHANGED <<screen, varsMap, allWaypoints, filterMode, hasEverSearched, showSearchOverlay,
                   hasMapInteracted, showListView, selectedWaypoint, isCenteringFromWaypoint,
                   centerTimers, queryCache, inflight, effectSeen, fetchCount,
                   closeAnims, varsJournal, varsMerge, varsKey, varsFilter, varsDrawer, varsLoad, varsRest>>

\* MapView.onRegionChange -> handleMapRegionChange -> updateMapBounds
MapRegionChange(region) ==
    /\ ExploreReady
    /\ mapReady
    /\ region /= mapRegion
    /\ mapRegion' = region
    /\ IF isCenteringFromWaypoint
       THEN UNCHANGED <<hasMapInteracted, mapBounds, shouldLoadWaypoints>>
       ELSE /\ hasMapInteracted' = TRUE
            /\ mapBounds' = BoundsAfterUpdate(region)
            /\ shouldLoadWaypoints' = ShouldLoadAfterUpdate(region)
    /\ UNCHANGED lastOp
    /\ UNCHANGED <<screen, mapReady, allWaypoints, filterMode, hasEverSearched, showSearchOverlay,
                   isMapAnimating, showListView, selectedWaypoint, isCenteringFromWaypoint,
                   centerTimers, animTimers, queryCache, inflight, effectSeen, fetchCount,
                   closeAnims, varsJournal, varsMerge, varsKey, varsFilter, varsDrawer, varsLoad, varsRest>>

\* handleBackToSearch
BackToSearch ==
    /\ ExploreReady
    /\ showSearchOverlay' = TRUE
    /\ showListView' = FALSE
    /\ hasEverSearched' = FALSE
    /\ shouldLoadWaypoints' = FALSE
    /\ isMapAnimating' = FALSE
    /\ allWaypoints' = EmptyMap
    /\ lastOp' = "reset"
    /\ UNCHANGED <<screen, varsMap, mapBounds, filterMode, hasMapInteracted, selectedWaypoint,
                   isCenteringFromWaypoint, centerTimers, animTimers, queryCache, inflight,
                   effectSeen, fetchCount, closeAnims, varsJournal, varsMerge, varsKey, varsFilter, varsDrawer, varsLoad, varsRest>>

\* handleClearSearch
ClearSearch ==
    /\ ExploreReady
    /\ showSearchOverlay' = TRUE
    /\ showListView' = FALSE
    /\ hasEverSearched' = FALSE
    /\ shouldLoadWaypoints' = FALSE
    /\ isMapAnimating' = FALSE
    /\ allWaypoints' = EmptyMap
    /\ lastOp' = "reset"
    /\ UNCHANGED <<screen, varsMap, mapBounds, filterMode, hasMapInteracted, selectedWaypoint,
                   isCenteringFromWaypoint, centerTimers, animTimers, queryCache, inflight,
                   effectSeen, fetchCount, closeAnims, varsJournal, varsMerge, varsKey, varsFilter, varsDrawer, varsLoad, varsRest>>

\* mutant of FilterModeChange: the mode changes and the collection stays
FilterModeChangeKeep(mode) ==
    /\ ExploreReady
    /\ ~ShouldShowOverlay
    /\ filterMode' = mode
    /\ lastOp' = "reset"
    /\ UNCHANGED <<screen, varsMap, allWaypoints, mapBounds, hasEverSearched, showSearchOverlay,
                   shouldLoadWaypoints, isMapAnimating, hasMapInteracted, showListView,
                   selectedWaypoint, isCenteringFromWaypoint, centerTimers, animTimers,
                   queryCache, inflight, effectSeen, fetchCount,
                   closeAnims, varsJournal, varsMerge, varsKey, varsFilter, varsDrawer, varsLoad, varsRest>>

\* handleFilterModeChange, from the filter tabs of the compact header
FilterModeChange(mode) ==
    /\ ExploreReady
    /\ ~ShouldShowOverlay
    /\ filterMode' = mode
    /\ allWaypoints' = EmptyMap
    /\ lastOp' = "reset"
    /\ UNCHANGED <<screen, varsMap, mapBounds, hasEverSearched, showSearchOverlay,
                   shouldLoadWaypoints, isMapAnimating, hasMapInteracted, showListView,
                   selectedWaypoint, isCenteringFromWaypoint, centerTimers, animTimers,
                   queryCache, inflight, effectSeen, fetchCount,
                   closeAnims, varsJournal, varsMerge, varsKey, varsFilter, varsDrawer, varsLoad, varsRest>>

\* the detail drawer (rendered while a waypoint is selected, at the bottom of
\* the screen with zIndex 1100) lies over the list toggle (bottom 20,
\* zIndex 1000) until a close animation slides it away
DrawerCoversToggle == selectedWaypoint /= <<>> /\ closeAnims = 0

\* handleToggleListView, from the list toggle
ToggleListView ==
    /\ ExploreReady
    /\ ~ShouldShowOverlay
    /\ ~DrawerCoversToggle
    /\ showListView' = ~showListView
    /\ UNCHANGED lastOp
    /\ UNCHANGED <<screen, varsMap, allWaypoints, mapBounds, filterMode, hasEverSearched,
                   showSearchOverlay, shouldLoadWaypoints, isMapAnimating, hasMapInteracted,
                   selectedWaypoint, isCenteringFromWaypoint, centerTimers, animTimers,
                   queryCache, inflight, effectSeen, fetchCount,
                   closeAnims, varsJournal, varsMerge, varsKey, varsFilter, varsDrawer, varsLoad, varsRest>>

\* what api.posts.getPostById answers with for the post of a record
FullEntry(w) == [postId |-> w.postId, full |-> TRUE]

\* the record has a post with an id: waypoint.post?.id
HasPostId(w) == w.hasPost /\ w.postId /= ""

\* a sequence without its i-th element
RemoveAt(q, i) == SubSeq(q, 1, i - 1) \o SubSeq(q, i + 1, Len(q))

\* the drawer at its expanded height (90% of the screen, set with the loading
\* flag) lies over the markers of the map
DrawerCoversMap ==
    /\ shouldRenderDrawer /\ selectedWaypoint /= <<>> /\ closeAnims = 0
    /\ (isExpanded \/ isLoadingExpanded)

\* whether the setValue calls of a press stop a close animation, whose
\* callback then runs within the press, after the writes of the press to the
\* selection and the drawer: translateY (400 ms, the longest of the parallel
\* animations) is set by a marker press; drawerHeight (250 ms) is all a press
\* in the list view sets, and its animation may have ended already
StopsCloseAnimation(fromListView) ==
    IF closeAnims = 0 THEN {FALSE}
    ELSE IF fromListView THEN {TRUE, FALSE}
    ELSE {TRUE}

\* mutant: a card of the list view opens the drawer collapsed, as a marker does
WaypointPressCollapsed(w, fromListView) ==
    /\ ExploreReady
    /\ centerTimers < MaxPresses
    /\ IF fromListView
       THEN /\ showListView /\ w \in SeqToSet(ExploreList)
            /\ showListView' = FALSE
       ELSE /\ ~ShouldShowOverlay /\ ~showListView /\ ~DrawerCoversMap
            /\ w \in SeqToSet(MapValues(allWaypoints)) /\ HasCoords(w)
            /\ UNCHANGED showListView
    /\ \E stopped \in StopsCloseAnimation(fromListView) :
           IF stopped
           THEN /\ selectedWaypoint' = <<>>
                /\ shouldRenderDrawer' = FALSE
                /\ isDrawerVisible' = FALSE
                /\ closeAnims' = 0
           ELSE /\ selectedWaypoint' = <<w>>
                /\ shouldRenderDrawer' = TRUE
                /\ isDrawerVisible' = TRUE
                /\ UNCHANGED closeAnims
    /\ isCenteringFromWaypoint' = TRUE
    /\ isClosingAnimated' = FALSE
    /\ centerTimers' = centerTimers + 1
    /\ fullEntryData' = <<>>
    /\ isExpanded' = FALSE
    /\ isLoadingExpanded' = FALSE
    /\ UNCHANGED detailCalls
    /\ lastOp' = "press"
    /\ UNCHANGED <<screen, varsMap, allWaypoints, mapBounds, filterMode, hasEverSearched,
                   showSearchOverlay, shouldLoadWaypoints, isMapAnimating, hasMapInteracted,
                   animTimers, queryCache, inflight, effectSeen, fetchCount,
                   varsJournal, varsMerge, varsKey, varsFilter, varsLoad, varsRest>>

\* handleWaypointPress: the selection, the drawer and the centering guard with
\* its 1500 ms timer. A marker of the map (fromListView false) opens the
\* drawer collapsed; a card of the list view closes the list and opens the
\* drawer loading, with getPostById called for a record with a post
WaypointPress(w, fromListView) ==
    /\ ExploreReady
    /\ centerTimers < MaxPresses
    /\ IF fromListView
       THEN /\ showListView /\ w \in SeqToSet(ExploreList)
            /\ showListView' = FALSE
       ELSE /\ ~ShouldShowOverlay /\ ~showListView /\ ~DrawerCoversMap
            /\ w \in SeqToSet(MapValues(allWaypoints)) /\ HasCoords(w)
            /\ UNCHANGED showListView
    /\ \E stopped \in StopsCloseAnimation(fromListView) :
           IF stopped
           THEN /\ selectedWaypoint' = <<>>
                /\ shouldRenderDrawer' = FALSE
                /\ isDrawerVisible' = FALSE
                /\ closeAnims' = 0
           ELSE /\ selectedWaypoint' = <<w>>
                /\ shouldRenderDrawer' = TRUE
                /\ isDrawerVisible' = TRUE
                /\ UNCHANGED closeAnims
    /\ isCenteringFromWaypoint' = TRUE
    /\ isClosingAnimated' = FALSE
    /\ centerTimers' = centerTimers + 1
    /\ IF fromListView /\ HasPostId(w)
       THEN /\ Len(detailCalls) < MaxFetches
            /\ fullEntryData' = <<>>
            /\ isLoadingExpanded' = TRUE
            /\ isExpanded' = FALSE
            /\ detailCalls' = Append(detailCalls, w)
       ELSE IF fromListView
       THEN /\ fullEntryData' = <<w>>
            /\ isExpanded' = TRUE
            /\ isLoadingExpanded' = FALSE
            /\ UNCHANGED detailCalls
       ELSE /\ fullEntryData' = <<>>
            /\ isExpanded' = FALSE
            /\ isLoadingExpanded' = FALSE
            /\ UNCHANGED detailCalls
    /\ lastOp' = "press"
    /\ UNCHANGED <<screen, varsMap, allWaypoints, mapBounds, filterMode, hasEverSearched,
                   showSearchOverlay, shouldLoadWaypoints, isMapAnimating, hasMapInteracted,
                   animTimers, queryCache, inflight, effectSeen, fetchCount,
                   varsJournal, varsMerge, varsKey, varsFilter, varsLoad, varsRest>>

\* the 1500 ms timer of handleWaypointPress
CenteringTimeout ==
    /\ ExploreReady
    /\ centerTimers > 0
    /\ centerTimers' = centerTimers - 1
    /\ isCenteringFromWaypoint' = FALSE
    /\ UNCHANGED lastOp
    /\ UNCHANGED <<screen, varsMap, allWaypoints, mapBounds, filterMode, hasEverSearched,
                   showSearchOverlay, shouldLoadWaypoints, isMapAnimating, hasMapInteracted,
                   showListView, selectedWaypoint, animTimers, queryCache, inflight,
                   effectSeen, fetchCount, closeAnims, varsJournal, varsMerge, varsKey,
                   varsFilter, varsDrawer, varsLoad, varsRest>>

\* the explore screen's state no drawer handler writes
varsExploreRest ==
    <<allWaypoints, mapBounds, filterMode, hasEverSearched, showSearchOverlay,
      shouldLoadWaypoints, isMapAnimating, hasMapInteracted, showListView,
      isCenteringFromWaypoint, centerTimers, animTimers,
      queryCache, inflight, effectSeen, fetchCount>>

\* mutant of HandleCloseWaypointDetail: the smooth close clears the selection
\* and the visibility at once
HandleCloseWaypointDetailAtOnce(smooth) ==
    /\ fullEntryData' = <<>>
    /\ isExpanded' = FALSE
    /\ isDrawerVisible' = FALSE
    /\ selectedWaypoint' = <<>>
    /\ shouldRenderDrawer' = FALSE
    /\ IF smooth
       THEN /\ isClosingAnimated' = TRUE
            /\ closeAnims' = closeAnims + 1
       ELSE /\ isClosingAnimated' = FALSE
            /\ UNCHANGED closeAnims
    /\ UNCHANGED <<isLoadingExpanded, detailCalls>>

\* handleCloseWaypointDetail(smooth): the state it writes. The smooth close
\* starts the close animation and leaves the selection and the visibility to
\* the animation's callback
HandleCloseWaypointDetail(smooth) ==
    /\ fullEntryData' = <<>>
    /\ isExpanded' = FALSE
    /\ IF smooth
       THEN /\ isClosingAnimated' = TRUE
            /\ closeAnims' = closeAnims + 1
            /\ UNCHANGED <<selectedWaypoint, isDrawerVisible, shouldRenderDrawer>>
       ELSE /\ isDrawerVisible' = FALSE
            /\ selectedWaypoint' = <<>>
            /\ shouldRenderDrawer' = FALSE
            /\ isClosingAnimated' = FALSE
            /\ UNCHANGED closeAnims
    /\ UNCHANGED <<isLoadingExpanded, detailCalls>>

\* mutant of HandleExpandDetail: a selection without a post is expanded too
HandleExpandDetailAny ==
    /\ isLoadingExpanded' = TRUE
    /\ detailCalls' = Append(detailCalls, selectedWaypoint[1])
    /\ UNCHANGED <<selectedWaypoint, closeAnims, isExpanded, isDrawerVisible,
                   shouldRenderDrawer, isClosingAnimated, fullEntryData>>

\* handleExpandDetail: nothing for a selection without a post; else the loading
\* flag and, from the callback of the height animation, getPostById with the
\* selection the handler closed over
HandleExpandDetail ==
    IF selectedWaypoint = <<>> \/ ~HasPostId(selectedWaypoint[1])
    THEN UNCHANGED <<selectedWaypoint, closeAnims, varsDrawer>>
    ELSE /\ isLoadingExpanded' = TRUE
         /\ detailCalls' = Append(detailCalls, selectedWaypoint[1])
         /\ UNCHANGED <<selectedWaypoint, closeAnims, isExpanded, isDrawerVisible,
                        shouldRenderDrawer, isClosingAnimated, fullEntryData>>

\* handleCollapseDetail
HandleCollapseDetail ==
    /\ isExpanded' = FALSE
    /\ isLoadingExpanded' = FALSE
    /\ fullEntryData' = <<>>
    /\ UNCHANGED <<selectedWaypoint, closeAnims, isDrawerVisible, shouldRenderDrawer,
                   isClosingAnimated, detailCalls>>

\* the drawer is on the screen, takes touches (pointerEvents auto) and no
\* close animation is sliding it away
DrawerTakesGestures ==
    /\ shouldRenderDrawer /\ selectedWaypoint /= <<>> /\ isDrawerVisible
    /\ closeAnims = 0

\* handleCloseWaypointDetail(true), from a swipe down on the drawer: starts the
\* close animation; the selection stays until the animation's callback
CloseWaypointDetailSmooth ==
    /\ ExploreReady
    /\ DrawerTakesGestures
    /\ closeAnims < MaxTimers
    /\ HandleCloseWaypointDetail(TRUE)
    /\ lastOp' = "closing"
    /\ UNCHANGED <<screen, varsMap, varsExploreRest, varsJournal, varsMerge, varsKey,
                   varsFilter, varsLoad, varsRest>>

\* the callback of the close animation: hides the drawer and clears the
\* selection
CloseAnimationEnd ==
    /\ ExploreReady
    /\ closeAnims > 0
    /\ closeAnims' = closeAnims - 1
    /\ isDrawerVisible' = FALSE
    /\ shouldRenderDrawer' = FALSE
    /\ isClosingAnimated' = FALSE
    /\ selectedWaypoint' = <<>>
    /\ lastOp' = "closeEnd"
    /\ UNCHANGED <<isExpanded, isLoadingExpanded, fullEntryData, detailCalls>>
    /\ UNCHANGED <<screen, varsMap, varsExploreRest, varsJournal, varsMerge, varsKey,
                   varsFilter, varsLoad, varsRest>>

\* the expanded view of the drawer is on display, with its close button, and
\* the drawer takes touches
ExpandedViewShown ==
    /\ DrawerTakesGestures
    /\ ~isLoadingExpanded /\ isExpanded

\* handleCloseWaypointDetail(), the immediate close, from the expanded view's
\* onClose
CloseWaypointDetail ==
    /\ ExploreReady
    /\ ExpandedViewShown
    /\ HandleCloseWaypointDetail(FALSE)
    /\ lastOp' = "closeNow"
    /\ UNCHANGED <<screen, varsMap, varsExploreRest, varsJournal, varsMerge, varsKey,
                   varsFilter, varsLoad, varsRest>>

\* gestureState.vy in tenths of a pixel per millisecond: the release
\* handlers compare vy with 0.5 and -0.5, dy with 100 and -100
VelocityLimit == 5

DistanceLimit == 100

\* releases of a drag of the drawer: fast or long ones either way, ones at the
\* limits, one fast downwards that ends above its start
Gestures ==
    {[name |-> "flickDown", vy |-> 6, dy |-> 20],
     [name |-> "dragDown", vy |-> 0, dy |-> 101],
     [name |-> "flickUp", vy |-> -6, dy |-> -20],
     [name |-> "dragUp", vy |-> 0, dy |-> -101],
     [name |-> "nudgeDown", vy |-> 5, dy |-> 100],
     [name |-> "nudgeUp", vy |-> -5, dy |-> -100],
     [name |-> "flickDownFromAbove", vy |-> 6, dy |-> -101]}

\* onPanResponderRelease: the branch the velocity and the translation select
ReleaseBranch(g) ==
    IF g.vy > VelocityLimit \/ g.dy > DistanceLimit THEN "close"
    ELSE IF g.vy < -VelocityLimit \/ g.dy < -DistanceLimit THEN "expand"
    ELSE "snap"

\* onPanResponderRelease of the explore screen's drawer
PanRelease(g) ==
    /\ ExploreReady
    /\ DrawerTakesGestures
    /\ CASE ReleaseBranch(g) = "close" ->
                closeAnims < MaxTimers /\ HandleCloseWaypointDetail(TRUE)
         [] ReleaseBranch(g) = "expand" ->
                IF ~isExpanded
                THEN /\ HasPostId(selectedWaypoint[1]) => Len(detailCalls) < MaxFetches
                     /\ HandleExpandDetail
                ELSE UNCHANGED <<selectedWaypoint, closeAnims, varsDrawer>>
         [] OTHER ->
                IF isExpanded
                THEN UNCHANGED <<selectedWaypoint, closeAnims, varsDrawer>>
                ELSE HandleCollapseDetail
    /\ lastOp' = g.name
    /\ UNCHANGED <<screen, varsMap, varsExploreRest, varsJournal, varsMerge, varsKey,
                   varsFilter, varsLoad, varsRest>>

\* getPostById of the i-th call in flight resolves: the then branch of
\* handleWaypointPress, the try branch of handleExpandDetail and of the
\* journal's handleEntryCardPress
DetailResolve(i) ==
    /\ screen \in {"explore", "journal"}
    /\ i \in 1..Len(detailCalls)
    /\ detailCalls' = RemoveAt(detailCalls, i)
    /\ fullEntryData' = <<FullEntry(detailCalls[i])>>
    /\ isExpanded' = TRUE
    /\ isLoadingExpanded' = FALSE
    /\ lastOp' = "resolved"
    /\ UNCHANGED <<isDrawerVisible, shouldRenderDrawer, isClosingAnimated>>
    /\ UNCHANGED <<screen, varsMap, varsExplore, varsJournal, varsMerge, varsKey,
                   varsFilter, varsLoad, varsRest>>

\* mutant of DetailReject: the rejection leaves the drawer loading
DetailRejectStuck(i) ==
    /\ screen \in {"explore", "journal"}
    /\ i \in 1..Len(detailCalls)
    /\ detailCalls' = RemoveAt(detailCalls, i)
    /\ lastOp' = "rejected"
    /\ UNCHANGED <<fullEntryData, isExpanded, isLoadingExpanded, isDrawerVisible,
                   shouldRenderDrawer, isClosingAnimated>>
    /\ UNCHANGED <<screen, varsMap, varsExplore, varsJournal, varsMerge, varsKey,
                   varsFilter, varsLoad, varsRest>>

\* getPostById of the i-th call in flight rejects: the catch branches, which
\* show the record the handler closed over
DetailReject(i) ==
    /\ screen \in {"explore", "journal"}
    /\ i \in 1..Len(detailCalls)
    /\ detailCalls' = RemoveAt(detailCalls, i)
    /\ fullEntryData' = <<detailCalls[i]>>
    /\ isExpanded' = TRUE
    /\ isLoadingExpanded' = FALSE
    /\ lastOp' = "rejected"
    /\ UNCHANGED <<isDrawerVisible, shouldRenderDrawer, isClosingAnimated>>
    /\ UNCHANGED <<screen, varsMap, varsExplore, varsJournal, varsMerge, varsKey,
                   varsFilter, varsLoad, varsRest>>

\* ---- the order of issue of the waypoint fetches, on record in SpecOrder ----
\* the place in issueOrder of the fetch in flight for key k
PendingIndex(k) ==
    CHOOSE i \in 1..Len(issueOrder) : issueOrder[i].key = k /\ issueOrder[i].state = "pending"

\* the fetches of issueOrder still in flight
StillPending(order) == SelectSeq(order, LAMBDA e : e.state = "pending")

\* issueOrder once the fetch in flight for key k has settled: the fetches
\* issued before it that are still in flight have been overtaken by a
\* resolve; the settled fetch stays on record when it resolved overtaken
IssueSettled(k, state, page) ==
    SelectSeq([i \in 1..Len(issueOrder) |->
                  IF i = PendingIndex(k)
                  THEN [issueOrder[i] EXCEPT !.state = state, !.page = page]
                  ELSE IF i < PendingIndex(k) /\ state = "resolved"
                  THEN [issueOrder[i] EXCEPT !.overtaken = TRUE]
                  ELSE issueOrder[i]],
              LAMBDA e : \/ e.state = "pending"
                         \/ e.key = k /\ e.state = "resolved" /\ e.overtaken)

\* useQuery starts the queryFn for the current key
QueryFetch ==
    /\ ExploreReady
    /\ QueryEnabled
    /\ QueryKey \notin inflight
    /\ fetchCount < MaxFetches
    /\ inflight' = inflight \cup {QueryKey}
    /\ fetchCount' = fetchCount + 1
    /\ UNCHANGED lastOp
    /\ UNCHANGED <<screen, varsMap, allWaypoints, mapBounds, filterMode, hasEverSearched,
                   showSearchOverlay, shouldLoadWaypoints, isMapAnimating, hasMapInteracted,
                   showListView, selectedWaypoint, isCenteringFromWaypoint, centerTimers,
                   animTimers, queryCache, effectSeen, closeAnims, varsJournal, varsMerge, varsKey, varsFilter, varsDrawer, varsLoad, varsMutations, lastEntered>>

\* mutant of QueryResolve: the page becomes the data of the current key
QueryResolveToObserver(k, page) ==
    /\ ExploreReady
    /\ k \in inflight
    /\ inflight' = inflight \ {k}
    /\ queryCache' = {e \in queryCache : e.key /= QueryKey} \cup {[key |-> QueryKey, data |-> page]}
    /\ UNCHANGED lastOp
    /\ UNCHANGED <<screen, varsMap, allWaypoints, mapBounds, filterMode, hasEverSearched,
                   showSearchOverlay, shouldLoadWaypoints, isMapAnimating, hasMapInteracted,
                   showListView, selectedWaypoint, isCenteringFromWaypoint, centerTimers,
                   animTimers, effectSeen, fetchCount, closeAnims, varsJournal, varsMerge, varsKey, varsFilter, varsDrawer, varsLoad, varsMutations, lastEntered>>

\* api.map.queryMap resolves: the page becomes the cached data of its key
QueryResolve(k, page) ==
    /\ ExploreReady
    /\ k \in inflight
    /\ inflight' = inflight \ {k}
    /\ queryCache' = {e \in queryCache : e.key /= k} \cup {[key |-> k, data |-> page]}
    /\ UNCHANGED lastOp
    /\ UNCHANGED <<screen, varsMap, allWaypoints, mapBounds, filterMode, hasEverSearched,
                   showSearchOverlay, shouldLoadWaypoints, isMapAnimating, hasMapInteracted,
                   showListView, selectedWaypoint, isCenteringFromWaypoint, centerTimers,
                   animTimers, effectSeen, fetchCount, closeAnims, varsJournal, varsMerge, varsKey, varsFilter, varsDrawer, varsLoad, varsMutations, lastEntered>>

\* api.map.queryMap rejects: the cached data stays
QueryReject(k) ==
    /\ ExploreReady
    /\ k \in inflight
    /\ inflight' = inflight \ {k}
    /\ UNCHANGED lastOp
    /\ UNCHANGED <<screen, varsMap, allWaypoints, mapBounds, filterMode, hasEverSearched,
                   showSearchOverlay, shouldLoadWaypoints, isMapAnimating, hasMapInteracted,
                   showListView, selectedWaypoint, isCenteringFromWaypoint, centerTimers,
                   animTimers, queryCache, effectSeen, fetchCount,
                   closeAnims, varsJournal, varsMerge, varsKey, varsFilter, varsDrawer, varsLoad, varsMutations, lastEntered>>

\* the effect on [recentWaypoints]: merges the page into allWaypoints
MergeEffect ==
    /\ screen = "explore"
    /\ MergePending
    /\ effectSeen' = RecentWaypoints
    /\ allWaypoints' = IF RecentWaypoints /= <<>>
                       THEN MergePage(allWaypoints, RecentWaypoints[1])
                       ELSE allWaypoints
    /\ lastOp' = IF RecentWaypoints /= <<>> THEN "merge" ELSE lastOp
    /\ UNCHANGED <<screen, varsMap, mapBounds, filterMode, hasEverSearched, showSearchOverlay,
                   shouldLoadWaypoints, isMapAnimating, hasMapInteracted, showListView,
                   selectedWaypoint, isCenteringFromWaypoint, centerTimers, animTimers,
                   queryCache, inflight, fetchCount, closeAnims, varsJournal, varsMerge, varsKey, varsFilter, varsDrawer, varsLoad, varsRest>>

NextExplore ==
    \/ \E region \in Regions : SearchResultSelect(region)
    \/ AnimationDone
    \/ \E region \in Regions : MapRegionChange(region)
    \/ BackToSearch
    \/ ClearSearch
    \/ \E mode \in {"global", "following"} : FilterModeChange(mode)
    \/ ToggleListView
    \/ QueryFetch /\ UNCHANGED issueOrder
    \/ \E k \in inflight : \E page \in QueryPages :
           QueryResolve(k, page) /\ UNCHANGED issueOrder
    \/ \E k \in inflight : QueryReject(k) /\ UNCHANGED issueOrder
    \/ MergeEffect

Init ==
    /\ screen = "explore"
    /\ lastOp = "init"
    /\ mapReady = FALSE /\ mapRegion = RegionA
    /\ IdleExplore /\ IdleJournal /\ IdleMerge /\ IdleKey /\ IdleFilter /\ IdleDrawer /\ IdleLoad /\ IdleRest

Next == MapBecomesReady \/ NextExplore

Spec == Init /\ [][Next]_vars

\* C3: no step removes a key from the merged collection except a reset, and a
\* reset empties it; every merge step leaves a key set that contains the one
\* before it.
C3_NoIncrementalEviction ==
    [][\/ MapKeys(allWaypoints) \subseteq MapKeys(allWaypoints')
       \/ (allWaypoints' = EmptyMap /\ lastOp' = "reset")]_vars

\* C3 witness: a second page was merged into a collection that held the first
\* one: the keys of both pages are there.
C3_Witness ==
    /\ lastOp = "merge"
    /\ MapKeys(allWaypoints) = {"a", "b", "45_-5"}
    /\ MapGet(allWaypoints, "a") = WIn5

\* C4 as stated: a search-result selection, a filter-mode change, a return to
\* search and a clear of search each leave the merged collection empty.
C4_EveryContextResetEmpties ==
    [][(lastOp' = "reset" \/ animTimers' = animTimers + 1) =>
           allWaypoints' = EmptyMap]_vars

\* C4 amended: a filter-mode change, a return to search and a clear of search
\* leave the merged collection empty; the selection of a search result (the
\* step that starts its 2000 ms timer) leaves the collection as it was.
C4_ResetsEmpty ==
    [][/\ lastOp' = "reset" => allWaypoints' = EmptyMap
       /\ animTimers' = animTimers + 1 => allWaypoints' = allWaypoints]_vars

\* C4 witness: a reset ran in following mode while a merged page was on the
\* screen, and the collection is empty.
C4_Witness ==
    /\ lastOp = "reset" /\ allWaypoints = EmptyMap
    /\ effectSeen /= <<>> /\ filterMode = "following"

\* the stored viewport as <<[west, south], [east, north]>>
StoredViewport ==
    <<<<mapBounds.arr[4], mapBounds.arr[2]>>, <<mapBounds.arr[3], mapBounds.arr[1]>>>>

\* C7: once updateMapBounds has stored a viewport, the list view shows exactly
\* the records of the merged collection inside that viewport.
C7_ListFollowsViewport ==
    (showListView /\ ~mapBounds.isNull) =>
        ExploreList = SelectSeq(MapValues(allWaypoints),
                                LAMBDA r : InsideViewport(r, StoredViewport))

\* C8: the list is the whole collection while no viewport has been reported,
\* and only then: with a viewport reported, a record outside it is not listed.
C8_FailOpenOnlyWhenUnset ==
    /\ mapBounds.isNull => ExploreList = MapValues(allWaypoints)
    /\ ~mapBounds.isNull =>
           \A r \in SeqToSet(MapValues(allWaypoints)) :
               ~InsideViewport(r, StoredViewport) => r \notin SeqToSet(ExploreList)

(***************************************************************************)
(* JournalScreen: journey mode, the entries list, the map's markers         *)
(***************************************************************************)
\* the full posts api.posts.getPostById answers with
FullPost(postId) ==
    IF postId = "a" THEN [date |-> Num(2), lat |-> Num(45), lon |-> Num(5)]
    ELSE [date |-> Num(3), lat |-> Num(46), lon |-> Num(6)]

\* trip waypoints: an entry known by its post only, a dated bare waypoint, a
\* dated entry with its own coordinates
JW1 == TripWP("j1", TRUE, "a", Undef, Undef, Undef)

JW2 == TripWP("j2", FALSE, "", Num(60), Num(5), Num(1))

JW3 == TripWP("j3", TRUE, "b", Num(46), Num(6), Num(3))

\* a waypoint dated 4 whose post "a" is dated 2
JW4 == TripWP("j4", TRUE, "a", Num(45), Num(5), Num(4))

\* the journeys of the journeys tab (userTrips), each without its waypoints
Journeys == {[id |-> "t1", full |-> FALSE], [id |-> "t2", full |-> FALSE]}

\* api.trips.getTripById(journey.id): the full trip and fullTrip.waypoints
FullTrip(journey) == [id |-> journey.id, full |-> TRUE]

TripWaypoints(journey) == IF journey.id = "t1" THEN <<JW1, JW2>> ELSE <<JW3>>

\* the waypoints of a trip that getPostById is called for
PostIndices(journey) ==
    {i \in 1..Len(TripWaypoints(journey)) :
        TripWaypoints(journey)[i].hasPost /\ TripWaypoints(journey)[i].postId /= ""}

\* mutant of EnrichWaypoint: the fetched post is dropped
EnrichWaypointNever(w, ok) == w

\* enterJourneyMode, the Promise.all: a waypoint with a post gets the full
\* post when getPostById resolves (ok), and stays as it is otherwise
EnrichWaypoint(w, ok) ==
    IF w.hasPost /\ w.postId /= "" /\ ok
    THEN [w EXCEPT !.postDate = FullPost(w.postId).date,
                   !.postLat = FullPost(w.postId).lat,
                   !.postLon = FullPost(w.postId).lon]
    ELSE w

\* enterJourneyMode, transformedWaypoints: post coordinates before the
\* waypoint's own, 0 when there are none; date: waypoint.date || post.date
TransformWaypoint(w) ==
    LET lat == IF w.hasPost THEN OrElse(w.postLat, w.lat) ELSE w.lat
        lon == IF w.hasPost THEN OrElse(w.postLon, w.lon) ELSE w.lon
    IN  [w EXCEPT !.lat = OrElse(lat, Num(0)),
                  !.lon = OrElse(lon, Num(0)),
                  !.date = OrElse(w.date, w.postDate)]

\* new Date(a.date || a.post?.date || 0).getTime()
DateKey(w) == OrElse(OrElse(w.date, w.postDate), Num(0))[1]

\* Array.prototype.sort with (a, b) => dateA - dateB: ascending and stable
InsertByDate(sorted, w) ==
    LET k == Cardinality({i \in 1..Len(sorted) : DateKey(sorted[i]) <= DateKey(w)})
    IN  SubSeq(sorted, 1, k) \o <<w>> \o SubSeq(sorted, k + 1, Len(sorted))

\* mutant of SortByDate: the waypoints stay in the order of the trip
SortByNothing(ws) == ws

RECURSIVE SortFrom(_, _, _)
SortFrom(sorted, ws, i) ==
    IF i > Len(ws) THEN sorted ELSE SortFrom(InsertByDate(sorted, ws[i]), ws, i + 1)

SortByDate(ws) == SortFrom(<<>>, ws, 1)

\* enterJourneyMode from fullTrip.waypoints on: Promise.all of the enrichment,
\* the transformation, the sort. enriched: the waypoints whose getPostById
\* resolved
SortedWaypoints(raw, enriched) ==
    LET enrichedWaypoints == [i \in 1..Len(raw) |-> EnrichWaypoint(raw[i], i \in enriched)]
    IN  SortByDate([i \in 1..Len(raw) |-> TransformWaypoint(enrichedWaypoints[i])])

\* enterJourneyMode: what setJourneyWaypoints receives. ok: getTripById
\* resolved; when it rejected, waypoints is the [] it started as
LoadedJourneyWaypoints(journey, ok, enriched) ==
    SortedWaypoints(IF ok THEN TripWaypoints(journey) ELSE <<>>, enriched)

\* entriesToDisplay, the findIndex callback
EntryMatches(entry, selected) ==
    IF entry.hasPost /\ selected.hasPost THEN entry.postId = selected.postId
    ELSE IF ~entry.hasPost /\ ~selected.hasPost THEN entry.id = selected.id
    ELSE FALSE

\* findIndex, counted from 1; 0 when no entry matches
FindIndex(entries, selected) ==
    IF \E i \in 1..Len(entries) : EntryMatches(entries[i], selected)
    THEN CHOOSE i \in 1..Len(entries) :
             /\ EntryMatches(entries[i], selected)
             /\ \A j \in 1..(i - 1) : ~EntryMatches(entries[j], selected)
    ELSE 0

\* entriesToDisplay, the list before the selection is looked at
EntriesSource(journeyMode, tab, journey, visible) ==
    IF journeyMode /\ tab = "entries" THEN journey ELSE visible

\* mutant of PromoteSelected: the list is left in its order
PromoteNothing(entries, selected) == entries

\* entriesToDisplay, the selected entry moved to the top
PromoteSelected(entries, selected) ==
    IF selected /= <<>> /\ Len(entries) > 0
    THEN LET selectedIndex == FindIndex(entries, selected[1])
         IN  IF selectedIndex > 1
             THEN <<entries[selectedIndex]>> \o
                  SubSeq(entries, 1, selectedIndex - 1) \o
                  SubSeq(entries, selectedIndex + 1, Len(entries))
             ELSE entries
    ELSE entries

\* JournalScreen.entriesToDisplay
EntriesToDisplay ==
    PromoteSelected(EntriesSource(isJourneyMode, activeTab, journeyWaypoints, visibleEntries),
                    selectedEntry)

\* mutant of JournalWaypointsData: the user's waypoints whatever the mode
JournalWaypointsDataAlways(journeyMode, waypoints) == waypoints

\* the waypointsData prop the journal gives MapView
JournalWaypointsData(journeyMode, waypoints) == IF journeyMode THEN <<>> ELSE waypoints

\* MapView.renderedWaypoints for the props selectedJourney (<<>> for null),
\* journeyWaypoints and waypointsData.waypoints
RenderedWaypoints(journeyProp, journeyWaypointsProp, waypointsProp) ==
    LET waypointsToRender ==
            IF journeyProp /= <<>> /\ Len(journeyWaypointsProp) > 0
            THEN journeyWaypointsProp ELSE waypointsProp
    IN  SelectSeq(waypointsToRender, HasCoords)

\* the markers of the journal's map
JournalMarkers ==
    RenderedWaypoints(IF isJourneyMode THEN selectedJourney ELSE <<>>,
                      IF isJourneyMode THEN journeyWaypoints ELSE <<>>,
                      JournalWaypointsData(isJourneyMode, mapWaypoints))

\* what the ['user-waypoints', username] query answers with
JournalPages == {<<WIn, WNorth, WWest>>}

\* mutant of AutoExitPending: the followers tab does not make the effect exit
AutoExitPendingNotFollowers ==
    isJourneyMode /\ activeTab \notin {"entries", "journeys", "followers"}

\* the effect on [activeTab, isJourneyMode] has an exit to make
AutoExitPending == isJourneyMode /\ activeTab \notin {"entries", "journeys"}

\* effects are flushed before the next event is handled
JournalReady == screen = "journal" /\ ~AutoExitPending

\* the user-waypoints query resolves; the effect on the number of waypoints
\* starts its 1000 ms timer for updateVisibleEntries
MapWaypointsLoaded(page) ==
    /\ JournalReady
    /\ page /= mapWaypoints
    /\ mapWaypoints' = page
    /\ visTimer' = TRUE
    /\ UNCHANGED <<screen, lastOp, varsMap, varsExplore, selectedEntry, activeTab, isJourneyMode,
                   selectedJourney, journeyWaypoints, visibleEntries, journeyCalls,
                   initialMapState, varsMerge, varsKey, varsFilter, varsDrawer, varsLoad, varsRest>>

\* MapView.onRegionChange -> throttledUpdateVisibleEntries: the 300 ms timer.
\* The region changes by a gesture or at the end of a camera move a handler
\* started (centerOnLocation, fitJourneyBounds)
JournalRegionChange(region) ==
    /\ JournalReady
    /\ mapReady
    /\ region /= mapRegion
    /\ mapRegion' = region
    /\ visTimer' = TRUE
    /\ UNCHANGED <<screen, lastOp, mapReady, varsExplore, selectedEntry, activeTab, isJourneyMode,
                   selectedJourney, journeyWaypoints, visibleEntries, mapWaypoints,
                   journeyCalls, initialMapState, varsMerge, varsKey, varsFilter, varsDrawer, varsLoad, varsRest>>

\* updateVisibleEntries, when one of its timers fires
UpdateVisibleEntries ==
    /\ JournalReady
    /\ visTimer
    /\ visTimer' = FALSE
    /\ visibleEntries' = JournalVisible(mapWaypoints, GetCurrentBounds(mapReady, mapRegion))
    /\ UNCHANGED <<screen, lastOp, varsMap, varsExplore, selectedEntry, activeTab, isJourneyMode,
                   selectedJourney, journeyWaypoints, mapWaypoints, journeyCalls,
                   initialMapState, varsMerge, varsKey, varsFilter, varsDrawer, varsLoad, varsRest>>

\* captureInitialMapState, 500 ms after the first updateVisibleEntries of the
\* loaded waypoints: keeps the bounds the map shows, once
CaptureInitialMapState ==
    /\ JournalReady
    /\ Len(mapWaypoints) > 0
    /\ initialMapState = <<>>
    /\ mapReady
    /\ initialMapState' = <<GetCurrentBounds(mapReady, mapRegion)>>
    /\ UNCHANGED <<screen, lastOp, varsMap, varsExplore, selectedEntry, activeTab, isJourneyMode,
                   selectedJourney, journeyWaypoints, visibleEntries, mapWaypoints, visTimer,
                   journeyCalls, varsMerge, varsKey, varsFilter, varsDrawer, varsLoad, varsRest>>

\* the journal's drawer is on the screen, over the tabbed section (the lower
\* 30% of the screen)
EntryDrawerShown == shouldRenderDrawer /\ selectedEntry /= <<>> /\ closeAnims = 0

\* handleEntryPress: a marker of the map is pressed, the map not being under
\* the drawer at its expanded height
EntryPress(entry) ==
    /\ JournalReady
    /\ ~(EntryDrawerShown /\ (isExpanded \/ isLoadingExpanded))
    /\ entry \in SeqToSet(JournalMarkers)
    /\ selectedEntry' = <<entry>>
    /\ activeTab' = "entries"
    /\ UNCHANGED <<screen, lastOp, varsMap, varsExplore, isJourneyMode, selectedJourney,
                   journeyWaypoints, visibleEntries, mapWaypoints, visTimer, journeyCalls,
                   initialMapState, varsMerge, varsKey, varsFilter, varsDrawer, varsLoad, varsRest>>

\* handleEntryCardPress, the entry is the selected one already
IsAlreadySelected(entry) ==
    /\ selectedEntry /= <<>>
    /\ IF entry.hasPost
       THEN selectedEntry[1].hasPost /\ selectedEntry[1].postId = entry.postId
       ELSE selectedEntry[1].id = entry.id /\ ~selectedEntry[1].hasPost

\* handleEntryCardPress, a card of the entries list is pressed: the first
\* press selects the entry; the second press on a bare waypoint does nothing
EntryCardPress(entry) ==
    /\ JournalReady
    /\ activeTab = "entries"
    /\ ~EntryDrawerShown
    /\ entry \in SeqToSet(EntriesToDisplay)
    /\ ~(IsAlreadySelected(entry) /\ entry.hasPost)
    /\ IF IsAlreadySelected(entry)
       THEN UNCHANGED <<selectedEntry, hasMapInteracted>>
       ELSE /\ selectedEntry' = <<entry>>
            /\ hasMapInteracted' = TRUE
    /\ UNCHANGED <<screen, lastOp, varsMap, varsExploreOnly, activeTab, isJourneyMode,
                   selectedJourney, journeyWaypoints, visibleEntries, mapWaypoints, visTimer,
                   journeyCalls, initialMapState, varsMerge, varsKey, varsFilter, varsDrawer, varsLoad, varsRest>>

\* handleEntryCardPress, the second press on an entry: the drawer opens at its
\* expanded height, loading; 100 ms later getPostById is called
EntryCardPressAgain(entry) ==
    /\ JournalReady
    /\ activeTab = "entries"
    /\ ~EntryDrawerShown
    /\ entry \in SeqToSet(EntriesToDisplay)
    /\ IsAlreadySelected(entry) /\ entry.hasPost
    /\ Len(detailCalls) < MaxFetches
    /\ shouldRenderDrawer' = TRUE
    /\ isDrawerVisible' = TRUE
    /\ isLoadingExpanded' = TRUE
    /\ fullEntryData' = <<>>
    /\ detailCalls' = Append(detailCalls, entry)
    /\ lastOp' = "press"
    /\ UNCHANGED <<isExpanded, isClosingAnimated>>
    /\ UNCHANGED <<screen, varsMap, varsExplore, varsJournal, varsMerge, varsKey,
                   varsFilter, varsLoad, varsRest>>

\* the journal's state no drawer handler writes
varsJournalRest ==
    <<activeTab, isJourneyMode, selectedJourney, journeyWaypoints,
      visibleEntries, mapWaypoints, visTimer, journeyCalls, initialMapState>>

\* handleCloseEntryDetail(smooth): the state it writes
HandleCloseEntryDetail(smooth) ==
    /\ fullEntryData' = <<>>
    /\ isExpanded' = FALSE
    /\ IF smooth
       THEN /\ closeAnims' = closeAnims + 1
            /\ UNCHANGED <<selectedEntry, isDrawerVisible, shouldRenderDrawer>>
       ELSE /\ isDrawerVisible' = FALSE
            /\ selectedEntry' = <<>>
            /\ shouldRenderDrawer' = FALSE
            /\ UNCHANGED closeAnims
    /\ UNCHANGED <<isClosingAnimated, isLoadingExpanded, detailCalls>>

\* the journal's handleExpandDetail
HandleExpandEntryDetail ==
    IF selectedEntry = <<>> \/ ~HasPostId(selectedEntry[1])
    THEN UNCHANGED <<selectedEntry, closeAnims, varsDrawer>>
    ELSE /\ isLoadingExpanded' = TRUE
         /\ detailCalls' = Append(detailCalls, selectedEntry[1])
         /\ UNCHANGED <<selectedEntry, closeAnims, isExpanded, isDrawerVisible,
                        shouldRenderDrawer, isClosingAnimated, fullEntryData>>

\* the journal's handleCollapseDetail
HandleCollapseEntryDetail ==
    /\ isExpanded' = FALSE
    /\ isLoadingExpanded' = FALSE
    /\ fullEntryData' = <<>>
    /\ UNCHANGED <<selectedEntry, closeAnims, isDrawerVisible, shouldRenderDrawer,
                   isClosingAnimated, detailCalls>>

\* onPanResponderRelease of the journal's drawer
EntryPanRelease(g) ==
    /\ JournalReady
    /\ EntryDrawerShown /\ isDrawerVisible
    /\ CASE ReleaseBranch(g) = "close" ->
                closeAnims < MaxTimers /\ HandleCloseEntryDetail(TRUE)
         [] ReleaseBranch(g) = "expand" ->
                IF ~isExpanded
                THEN /\ HasPostId(selectedEntry[1]) => Len(detailCalls) < MaxFetches
                     /\ HandleExpandEntryDetail
                ELSE UNCHANGED <<selectedEntry, closeAnims, varsDrawer>>
         [] OTHER ->
                IF isExpanded
                THEN UNCHANGED <<selectedEntry, closeAnims, varsDrawer>>
                ELSE HandleCollapseEntryDetail
    /\ lastOp' = g.name
    /\ UNCHANGED <<screen, varsMap, varsExploreRest, selectedWaypoint, varsJournalRest,
                   varsMerge, varsKey, varsFilter, varsLoad, varsRest>>

\* the callback of the journal's close animation
CloseEntryAnimationEnd ==
    /\ JournalReady
    /\ closeAnims > 0
    /\ closeAnims' = closeAnims - 1
    /\ isDrawerVisible' = FALSE
    /\ shouldRenderDrawer' = FALSE
    /\ selectedEntry' = <<>>
    /\ lastOp' = "closeEnd"
    /\ UNCHANGED <<isExpanded, isClosingAnimated, isLoadingExpanded, fullEntryData, detailCalls>>
    /\ UNCHANGED <<screen, varsMap, varsExploreRest, selectedWaypoint, varsJournalRest,
                   varsMerge, varsKey, varsFilter, varsLoad, varsRest>>

\* handleCloseEntryDetail(), from the expanded view's onClose
CloseEntryDetail ==
    /\ JournalReady
    /\ EntryDrawerShown /\ isDrawerVisible /\ ~isLoadingExpanded /\ isExpanded
    /\ HandleCloseEntryDetail(FALSE)
    /\ lastOp' = "closeNow"
    /\ UNCHANGED <<screen, varsMap, varsExploreRest, selectedWaypoint, varsJournalRest,
                   varsMerge, varsKey, varsFilter, varsLoad, varsRest>>

\* handleMapReset, from the reset button
MapReset ==
    /\ JournalReady
    /\ hasMapInteracted /\ initialMapState /= <<>>
    /\ hasMapInteracted' = FALSE
    /\ selectedEntry' = <<>>
    /\ UNCHANGED <<screen, lastOp, varsMap, varsExploreOnly, activeTab, isJourneyMode,
                   selectedJourney, journeyWaypoints, visibleEntries, mapWaypoints, visTimer,
                   journeyCalls, initialMapState, varsMerge, varsKey, varsFilter, varsDrawer, varsLoad, varsRest>>

\* handleTabChange. The tab bar offers following and followers outside journey
\* mode only; the handler takes any tab
TabChange(tab) ==
    /\ JournalReady
    /\ tab /= activeTab
    /\ activeTab' = tab
    /\ UNCHANGED <<screen, lastOp, varsMap, varsExplore, selectedEntry, isJourneyMode,
                   selectedJourney, journeyWaypoints, visibleEntries, mapWaypoints, visTimer,
                   journeyCalls, initialMapState, varsMerge, varsKey, varsFilter, varsDrawer, varsLoad, varsRest>>

\* enterJourneyMode up to its first await: a journey card of the journeys tab
EnterJourneyMode(journey) ==
    /\ JournalReady
    /\ activeTab = "journeys"
    /\ Len(journeyCalls) < MaxFetches
    /\ selectedJourney' = <<journey>>
    /\ isJourneyMode' = TRUE
    /\ activeTab' = "entries"
    /\ journeyCalls' = Append(journeyCalls, journey)
    /\ lastEntered' = <<journey>>
    /\ UNCHANGED <<screen, lastOp, varsMap, varsExplore, selectedEntry, journeyWaypoints,
                   visibleEntries, mapWaypoints, visTimer, initialMapState,
                   varsMerge, varsKey, varsFilter, varsDrawer, varsLoad, varsMutations, issueOrder>>

\* mutant of JourneyResolve: the resolution turns journey mode on
JourneyResolveActivates(i, ok, enriched) ==
    /\ JournalReady
    /\ i \in 1..Len(journeyCalls)
    /\ enriched \subseteq PostIndices(journeyCalls[i])
    /\ ~ok => enriched = {}
    /\ journeyCalls' = SubSeq(journeyCalls, 1, i - 1) \o SubSeq(journeyCalls, i + 1, Len(journeyCalls))
    /\ selectedJourney' = IF ok THEN <<FullTrip(journeyCalls[i])>> ELSE selectedJourney
    /\ journeyWaypoints' = LoadedJourneyWaypoints(journeyCalls[i], ok, enriched)
    /\ activeTab' = "entries"
    /\ isJourneyMode' = TRUE
    /\ UNCHANGED <<screen, lastOp, varsMap, varsExplore, selectedEntry,
                   visibleEntries, mapWaypoints, visTimer, initialMapState,
                   varsMerge, varsKey, varsFilter, varsDrawer, varsLoad, varsRest>>

\* enterJourneyMode after its awaits, for the i-th call in flight. ok:
\* getTripById resolved; enriched: the waypoints whose getPostById resolved
JourneyResolve(i, ok, enriched) ==
    /\ JournalReady
    /\ i \in 1..Len(journeyCalls)
    /\ enriched \subseteq PostIndices(journeyCalls[i])
    /\ ~ok => enriched = {}
    /\ journeyCalls' = SubSeq(journeyCalls, 1, i - 1) \o SubSeq(journeyCalls, i + 1, Len(journeyCalls))
    /\ selectedJourney' = IF ok THEN <<FullTrip(journeyCalls[i])>> ELSE selectedJourney
    /\ journeyWaypoints' = LoadedJourneyWaypoints(journeyCalls[i], ok, enriched)
    /\ activeTab' = "entries"
    /\ UNCHANGED <<screen, lastOp, varsMap, varsExplore, selectedEntry, isJourneyMode,
                   visibleEntries, mapWaypoints, visTimer, initialMapState,
                   varsMerge, varsKey, varsFilter, varsDrawer, varsLoad, varsRest>>

\* exitJourneyMode, from the banner over the entries of a journey
ExitJourneyMode ==
    /\ JournalReady
    /\ isJourneyMode /\ activeTab = "entries"
    /\ isJourneyMode' = FALSE
    /\ selectedJourney' = <<>>
    /\ journeyWaypoints' = <<>>
    /\ UNCHANGED <<screen, lastOp, varsMap, varsExplore, selectedEntry, activeTab,
                   visibleEntries, mapWaypoints, visTimer, journeyCalls, initialMapState,
                   varsMerge, varsKey, varsFilter, varsDrawer, varsLoad, varsRest>>

\* the effect on [activeTab, isJourneyMode]: exitJourneyMode on the following
\* and followers tabs
AutoExitJourneyMode ==
    /\ screen = "journal"
    /\ AutoExitPending
    /\ isJourneyMode' = FALSE
    /\ selectedJourney' = <<>>
    /\ journeyWaypoints' = <<>>
    /\ UNCHANGED <<screen, lastOp, varsMap, varsExplore, selectedEntry, activeTab,
                   visibleEntries, mapWaypoints, visTimer, journeyCalls, initialMapState,
                   varsMerge, varsKey, varsFilter, varsDrawer, varsLoad, varsRest>>

NextJournal ==
    \/ \E page \in JournalPages : MapWaypointsLoaded(page)
    \/ \E region \in Regions : JournalRegionChange(region)
    \/ UpdateVisibleEntries
    \/ CaptureInitialMapState
    \/ \E entry \in SeqToSet(JournalMarkers) : EntryPress(entry)
    \/ \E entry \in SeqToSet(EntriesToDisplay) : EntryCardPress(entry)
    \/ MapReset
    \/ \E tab \in {"entries", "journeys", "following", "followers"} : TabChange(tab)
    \/ \E journey \in Journeys : EnterJourneyMode(journey)
    \/ \E i \in 1..Len(journeyCalls) :
           \E enriched \in SUBSET PostIndices(journeyCalls[i]) : JourneyResolve(i, TRUE, enriched)
    \/ \E i \in 1..Len(journeyCalls) : JourneyResolve(i, FALSE, {})
    \/ ExitJourneyMode
    \/ AutoExitJourneyMode

\* the explore screen after a search, with two pages merged and the viewport
\* of the map stored
ExploreLoaded ==
    /\ mapReady = TRUE /\ mapRegion = RegionA
    /\ allWaypoints = MergePage(MergePage(EmptyMap, <<WIn, WNorth>>), <<WIn5, WWest>>)
    /\ mapBounds = BoundsToStore(GetCurrentBounds(TRUE, RegionA))
    /\ filterMode = "global"
    /\ hasEverSearched = TRUE /\ showSearchOverlay = FALSE
    /\ shouldLoadWaypoints = TRUE /\ isMapAnimating = FALSE
    /\ hasMapInteracted = FALSE /\ showListView = FALSE
    /\ selectedWaypoint = <<>> /\ isCenteringFromWaypoint = FALSE
    /\ centerTimers = 0 /\ animTimers = 0 /\ closeAnims = 0
    /\ queryCache = {[key |-> [bounds |-> BoundsToStore(GetCurrentBounds(TRUE, RegionA)),
                                mode |-> "global"],
                      data |-> <<WIn5, WWest>>]}
    /\ inflight = {} /\ effectSeen = <<<<WIn5, WWest>>>> /\ fetchCount = 2

\* the explore screen's list and selection, from the loaded screen on
NextExploreList ==
    \/ \E region \in Regions : MapRegionChange(region)
    \/ ToggleListView
    \/ \E w \in SeqToSet(MapValues(allWaypoints)) : \E fromListView \in BOOLEAN :
           WaypointPress(w, fromListView)
    \/ CenteringTimeout
    \/ CloseWaypointDetailSmooth
    \/ CloseAnimationEnd
    \/ CloseWaypointDetail
    \/ \E i \in 1..Len(detailCalls) : DetailResolve(i)
    \/ \E i \in 1..Len(detailCalls) : DetailReject(i)

InitViews ==
    /\ \/ /\ screen = "explore" /\ lastOp = "merge"
          /\ ExploreLoaded /\ IdleJournal
       \/ /\ screen = "journal" /\ lastOp = "init"
          /\ mapReady = FALSE /\ mapRegion = RegionA
          /\ IdleExplore /\ IdleJournal
    /\ IdleMerge /\ IdleKey /\ IdleFilter /\ IdleDrawer /\ IdleLoad /\ IdleRest

NextViews == MapBecomesReady \/ NextExploreList \/ NextJournal

SpecViews == InitViews /\ [][NextViews]_vars

(***************************************************************************)
(* SpecDrawer: the detail drawer of the two screens                         *)
(***************************************************************************)
\* the journal with the user's waypoints loaded and listed
JournalLoaded ==
    /\ mapReady = TRUE /\ mapRegion = RegionA
    /\ selectedEntry = <<>> /\ activeTab = "entries" /\ isJourneyMode = FALSE
    /\ selectedJourney = <<>> /\ journeyWaypoints = <<>>
    /\ visibleEntries = <<WIn, WNorth, WWest>>
    /\ mapWaypoints = <<WIn, WNorth, WWest>> /\ visTimer = FALSE
    /\ journeyCalls = <<>> /\ initialMapState = <<>>

InitDrawer ==
    /\ \/ /\ screen = "explore" /\ lastOp = "merge"
          /\ ExploreLoaded /\ IdleJournal
       \/ /\ screen = "journal" /\ lastOp = "init"
          /\ IdleExplore /\ JournalLoaded
    /\ IdleMerge /\ IdleKey /\ IdleFilter /\ IdleDrawer /\ IdleLoad /\ IdleRest

NextExploreDrawer ==
    \/ ToggleListView
    \/ \E w \in SeqToSet(MapValues(allWaypoints)) : \E fromListView \in BOOLEAN :
           WaypointPress(w, fromListView)
    \/ CenteringTimeout
    \/ \E g \in Gestures : PanRelease(g)
    \/ CloseAnimationEnd
    \/ CloseWaypointDetail

NextEntryDrawer ==
    \/ \E entry \in SeqToSet(JournalMarkers) : EntryPress(entry)
    \/ \E entry \in SeqToSet(EntriesToDisplay) : EntryCardPress(entry)
    \/ \E entry \in SeqToSet(EntriesToDisplay) : EntryCardPressAgain(entry)
    \/ \E g \in Gestures : EntryPanRelease(g)
    \/ CloseEntryAnimationEnd
    \/ CloseEntryDetail

NextDrawer ==
    \/ NextExploreDrawer
    \/ NextEntryDrawer
    \/ \E i \in 1..Len(detailCalls) : DetailResolve(i)
    \/ \E i \in 1..Len(detailCalls) : DetailReject(i)

SpecDrawer == InitDrawer /\ [][NextDrawer]_vars

\* the selected record and a record of a list are the same entry (same post)
\* or the same bare waypoint (same waypoint id)
SameRecord(r, selected) ==
    \/ r.hasPost /\ selected.hasPost /\ r.postId = selected.postId
    \/ ~r.hasPost /\ ~selected.hasPost /\ r.id = selected.id

\* a list holding the selected record has it first
SelectedFirst(list, selection) ==
    (selection /= <<>> /\ \E i \in 1..Len(list) : SameRecord(list[i], selection[1])) =>
        SameRecord(list[1], selection[1])

\* C9 as stated: in the list on display, the journal's entries list or the
\* explore screen's list view, the selected record is first whenever the list
\* holds it.
C9_SelectedFirst ==
    /\ (screen = "journal" /\ activeTab = "entries") =>
           SelectedFirst(EntriesToDisplay, selectedEntry)
    /\ (screen = "explore" /\ showListView) =>
           SelectedFirst(ExploreList, selectedWaypoint)

\* C9 amended: in the journal's entries list the selected record is first
\* whenever the list holds it.
C9_JournalSelectedFirst ==
    (screen = "journal" /\ activeTab = "entries") =>
        SelectedFirst(EntriesToDisplay, selectedEntry)

\* C9 witness: the second of three entries in the viewport was selected and
\* the journal's list starts with it.
C9_Witness ==
    /\ screen = "journal" /\ activeTab = "entries" /\ ~isJourneyMode
    /\ visibleEntries = <<WIn, WNorth, WWest>>
    /\ selectedEntry = <<WNorth>>
    /\ EntriesToDisplay = <<WNorth, WIn, WWest>>

\* C10: in journey mode the markers of the map and the entries list hold the
\* journey's waypoints only, and a step that leaves journey mode on and the
\* journey's waypoints as they are (a viewport change, new viewport entries,
\* a new page of the user's waypoints) changes neither.
C10_JourneyExclusive ==
    [][(screen = "journal" /\ isJourneyMode') =>
          /\ SeqToSet(JournalMarkers') \subseteq SeqToSet(journeyWaypoints')
          /\ activeTab' = "entries" =>
                SeqToSet(EntriesToDisplay') = SeqToSet(journeyWaypoints')
          /\ (isJourneyMode /\ journeyWaypoints' = journeyWaypoints) =>
                /\ JournalMarkers' = JournalMarkers
                /\ (activeTab = "entries" /\ activeTab' = "entries") =>
                      SeqToSet(EntriesToDisplay') = SeqToSet(EntriesToDisplay)]_vars

\* C10 witness: a journey is on display while the viewport holds other
\* entries of the user: the map moved north and the viewport's entries are
\* the northern one, the markers and the list are the journey's.
C10_Witness ==
    /\ screen = "journal" /\ isJourneyMode /\ activeTab = "entries"
    /\ journeyCalls = <<>> /\ Len(journeyWaypoints) = 2
    /\ mapRegion = RegionB /\ mapWaypoints = <<WIn, WNorth, WWest>>
    /\ visibleEntries = <<WNorth>> /\ visTimer = FALSE
    /\ SeqToSet(EntriesToDisplay) = SeqToSet(journeyWaypoints)
    /\ JournalMarkers /= <<>>
    /\ SeqToSet(JournalMarkers) \subseteq SeqToSet(journeyWaypoints)

\* SpecViews with the scheduling of React's effects: the effect on
\* [activeTab, isJourneyMode] runs after the render that changed them
SpecViewsFair == SpecViews /\ WF_vars(AutoExitJourneyMode)

\* C11: journey mode on the following or followers tab does not persist: the
\* only step such a state takes leaves journey mode with the tab as it is, and
\* the step is taken.
C11_AutoExit ==
    /\ [][(isJourneyMode /\ activeTab \in {"following", "followers"}) =>
             (~isJourneyMode' /\ activeTab' = activeTab)]_vars
    /\ (isJourneyMode /\ activeTab \in {"following", "followers"}) ~> ~isJourneyMode

\* C11 witness: the followers tab was chosen in journey mode, with the trip
\* already loaded.
C11_Witness ==
    /\ screen = "journal" /\ isJourneyMode /\ activeTab = "followers"
    /\ journeyCalls = <<>> /\ Len(journeyWaypoints) = 2

\* C12: journey mode left while a trip fetch is in flight stays off when the
\* fetch resolves: the only step that turns journey mode on is a new
\* enterJourneyMode, the step that starts a fetch.
C12_LateResolveKeepsInactive ==
    [][(~isJourneyMode /\ isJourneyMode') => Len(journeyCalls') = Len(journeyCalls) + 1]_vars

\* C12 witness: the trip fetch resolved with journey mode off and no other
\* fetch in flight: the trip is stored and journey mode is still off.
C12_Witness ==
    /\ screen = "journal" /\ ~isJourneyMode /\ journeyCalls = <<>>
    /\ selectedJourney = <<FullTrip([id |-> "t1", full |-> FALSE])>>
    /\ Len(journeyWaypoints) = 2

\* C13 as stated: with journey mode off there is no selected journey and the
\* list of journey waypoints is empty.
C13_InactiveIsClear ==
    ~isJourneyMode => (selectedJourney = <<>> /\ journeyWaypoints = <<>>)

(***************************************************************************)
(* SpecLoad: enterJourneyMode's enrichment and sort applied to any trip     *)
(***************************************************************************)
MaxTrip == 3

\* the waypoints a trip is made of
LoadWaypoints == {JW1, JW2, JW3, JW4}

\* fullTrip.waypoints: up to MaxTrip waypoints, each at most once
TripLists ==
    {ws \in UNION {[1..n -> LoadWaypoints] : n \in 0..MaxTrip} :
        \A i, j \in 1..Len(ws) : i /= j => ws[i] /= ws[j]}

\* the waypoints of a list that getPostById is called for
PostIndicesOf(raw) == {i \in 1..Len(raw) : raw[i].hasPost /\ raw[i].postId /= ""}

InitLoad ==
    /\ screen = "none" /\ lastOp = "init"
    /\ IdleMap /\ IdleExplore /\ IdleJournal /\ IdleMerge /\ IdleKey /\ IdleFilter /\ IdleDrawer /\ IdleRest
    /\ lRaw \in TripLists
    /\ lEnriched \in SUBSET PostIndicesOf(lRaw)
    /\ lOut = <<>> /\ lStage = "in"

\* enterJourneyMode with getTripById resolved: the list setJourneyWaypoints gets
LoadSettle ==
    /\ lStage = "in"
    /\ lOut' = SortedWaypoints(lRaw, lEnriched)
    /\ lStage' = "out"
    /\ UNCHANGED <<screen, lastOp, lRaw, lEnriched, varsMap, varsExplore, varsJournal,
                   varsMerge, varsKey, varsFilter, varsDrawer, varsRest>>

\* enterJourneyMode with getTripById rejected: no getPostById is called
LoadFail ==
    /\ lStage = "in"
    /\ lEnriched = {}
    /\ lOut' = SortedWaypoints(<<>>, {})
    /\ lStage' = "failed"
    /\ UNCHANGED <<screen, lastOp, lRaw, lEnriched, varsMap, varsExplore, varsJournal,
                   varsMerge, varsKey, varsFilter, varsDrawer, varsRest>>

NextLoad == LoadSettle \/ LoadFail

SpecLoad == InitLoad /\ [][NextLoad]_vars

\* the date of a trip waypoint's post once the fetch of the post settled
PostDateOf(w, fetched) ==
    IF w.hasPost /\ fetched THEN FullPost(w.postId).date ELSE w.postDate

\* the waypoint's own date, else its post's, else 0
DateOwnFirst(w, fetched) == OrElse(OrElse(w.date, PostDateOf(w, fetched)), Num(0))[1]

\* the post's date, else the waypoint's own, else 0
DatePostFirst(w, fetched) == OrElse(OrElse(PostDateOf(w, fetched), w.date), Num(0))[1]

\* the place in the trip of a waypoint of the loaded list
TripIndex(w) == CHOOSE i \in 1..Len(lRaw) : lRaw[i].id = w.id

\* the loaded list holds the trip's waypoints, each once
IsPermutationOfTrip ==
    /\ Len(lOut) = Len(lRaw)
    /\ {lOut[j].id : j \in 1..Len(lOut)} = {lRaw[i].id : i \in 1..Len(lRaw)}

\* the loaded list is in non-decreasing order of a date
InOrderOf(Date(_, _)) ==
    \A i, j \in 1..Len(lOut) :
        i < j => Date(lRaw[TripIndex(lOut[i])], TripIndex(lOut[i]) \in lEnriched)
                   <= Date(lRaw[TripIndex(lOut[j])], TripIndex(lOut[j]) \in lEnriched)

\* C19 as stated: the loaded list is a permutation of the trip's waypoints in
\* non-decreasing order of the post's date, else the waypoint's own date,
\* else 0.
C19_SortedPostDateFirst ==
    lStage = "out" => (IsPermutationOfTrip /\ InOrderOf(DatePostFirst))

\* C19 amended: the loaded list is a permutation of the trip's waypoints in
\* non-decreasing order of the waypoint's own date, else its post's date,
\* else 0.
C19_SortedOwnDateFirst ==
    lStage = "out" => (IsPermutationOfTrip /\ InOrderOf(DateOwnFirst))

\* C19 witness: a waypoint dated 4 whose post is dated 2 and a waypoint dated
\* 3 were loaded, and the one dated 3 is first.
C19_Witness ==
    /\ lStage = "out" /\ lRaw = <<JW4, JW3>> /\ lEnriched = {1, 2}
    /\ Len(lOut) = 2 /\ lOut[1].id = "j3" /\ lOut[2].id = "j4"

\* C20: whatever fetches of post detail failed, the loaded list holds every
\* waypoint of the trip; a waypoint whose fetch resolved carries the fetched
\* post, any other waypoint has the post data it came with.
C20_EnrichmentIndependent ==
    lStage = "out" =>
        /\ Len(lOut) = Len(lRaw)
        /\ \A i \in 1..Len(lRaw) :
              \E j \in 1..Len(lOut) :
                  /\ lOut[j].id = lRaw[i].id
                  /\ lOut[j].hasPost = lRaw[i].hasPost /\ lOut[j].postId = lRaw[i].postId
                  /\ IF i \in lEnriched
                     THEN /\ lOut[j].postDate = FullPost(lRaw[i].postId).date
                          /\ lOut[j].postLat = FullPost(lRaw[i].postId).lat
                          /\ lOut[j].postLon = FullPost(lRaw[i].postId).lon
                     ELSE /\ lOut[j].postDate = lRaw[i].postDate
                          /\ lOut[j].postLat = lRaw[i].postLat
                          /\ lOut[j].postLon = lRaw[i].postLon

\* C20 witness: of three waypoints the fetch for the first failed and the
\* fetch for the third resolved; the list holds the three.
C20_Witness ==
    /\ lStage = "out" /\ lRaw = <<JW1, JW2, JW3>> /\ lEnriched = {3}
    /\ Len(lOut) = 3
    /\ \E j \in 1..3 : lOut[j].id = "j1" /\ lOut[j].postDate = Undef
    /\ \E j \in 1..3 : lOut[j].id = "j3" /\ lOut[j].postDate = Num(3)

(***************************************************************************)
(* SpecDrawer, the claims                                                   *)
(***************************************************************************)
\* SpecDrawer with the callbacks of the close animations: Animated calls the
\* callback of start() when the animation ends or is stopped
SpecDrawerFair ==
    SpecDrawer /\ WF_vars(CloseAnimationEnd) /\ WF_vars(CloseEntryAnimationEnd)

\* the selection the drawer of the mounted screen shows
Selection == IF screen = "explore" THEN selectedWaypoint ELSE selectedEntry

\* the drawer is not on the screen
Closed == Selection = <<>> \/ ~shouldRenderDrawer

\* the drawer is on the screen and not marked expanded
Collapsed == ~Closed /\ ~isExpanded

\* a release of a drag of the mounted screen's drawer
Release(g) == PanRelease(g) \/ EntryPanRelease(g)

\* the release closes: vy > 0.5 or dy > 100
ClaimCloses(g) == g.vy > 5 \/ g.dy > 100

\* otherwise the release expands: vy < -0.5 or dy < -100
ClaimExpands(g) == ~ClaimCloses(g) /\ (g.vy < -5 \/ g.dy < -100)

\* the drawer's state: selection, flags, detail, fetches in flight, animations
DrawerState == <<selectedWaypoint, selectedEntry, closeAnims, varsDrawer>>

\* C14: a release that expands a collapsed drawer whose selection has a post
\* sets the loading flag and fetches the detail of the selection; when a
\* detail fetch settles the drawer is marked expanded and the loading flag is
\* cleared, with the fetched detail when the fetch resolved and with the
\* record it was started for when it rejected; the loading flag is never set
\* without a fetch in flight.
C14_ExpandSettlesExpanded ==
    /\ [][\A g \in Gestures :
             (Release(g) /\ ClaimExpands(g) /\ Collapsed /\ HasPostId(Selection[1])) =>
                 (isLoadingExpanded' /\ detailCalls' = Append(detailCalls, Selection[1]))]_vars
    /\ [][Len(detailCalls') < Len(detailCalls) =>
             \E i \in 1..Len(detailCalls) :
                 /\ detailCalls' = RemoveAt(detailCalls, i)
                 /\ isExpanded' /\ ~isLoadingExpanded'
                 /\ \/ lastOp' = "resolved" /\ fullEntryData' = <<FullEntry(detailCalls[i])>>
                    \/ lastOp' = "rejected" /\ fullEntryData' = <<detailCalls[i]>>]_vars
    /\ [](isLoadingExpanded => detailCalls /= <<>>)

\* C14 witness: the detail fetch of the selected entry rejected and the
\* drawer shows the entry expanded with the entry itself as its detail.
C14_Witness ==
    /\ lastOp = "rejected" /\ Selection /= <<>> /\ HasPostId(Selection[1])
    /\ shouldRenderDrawer /\ isExpanded /\ ~isLoadingExpanded
    /\ fullEntryData = Selection /\ detailCalls = <<>>

\* C15 as stated: on the explore screen, while the drawer is closed or
\* collapsed the detail is empty and the drawer is not marked expanded.
C15_DetailOnlyWhileExpanded ==
    (screen = "explore" /\ (Closed \/ Collapsed)) => (fullEntryData = <<>> /\ ~isExpanded)

\* C16: a release that expands a collapsed drawer whose selection has no post
\* leaves the drawer's state as it is: collapsed on the same selection, not
\* loading, no fetch started.
C16_ExpandBareIsNoOp ==
    [][\A g \in Gestures :
          (Release(g) /\ ClaimExpands(g) /\ Collapsed /\ ~HasPostId(Selection[1])) =>
              (UNCHANGED DrawerState /\ ~isLoadingExpanded')]_vars

\* C16 witness: the drawer of the explore screen is collapsed on the bare
\* waypoint and the last event was a flick upwards.
C16_Witness ==
    /\ screen = "explore" /\ lastOp = "flickUp"
    /\ selectedWaypoint = <<WWest>> /\ shouldRenderDrawer /\ isDrawerVisible
    /\ ~isExpanded /\ ~isLoadingExpanded /\ fullEntryData = <<>> /\ detailCalls = <<>>

\* C17: the smooth close leaves the selection and the visibility set; they
\* stay set while the close animation runs and its callback leaves the drawer
\* closed, which it does; the immediate close leaves the drawer closed in its
\* own step.
C17_CloseEndsClosed ==
    /\ [][closeAnims' = closeAnims + 1 =>
             /\ Selection /= <<>> /\ Selection' = Selection
             /\ isDrawerVisible /\ isDrawerVisible']_vars
    /\ [](closeAnims > 0 => (Selection /= <<>> /\ isDrawerVisible /\ shouldRenderDrawer))
    /\ [][closeAnims' < closeAnims =>
             (Selection' = <<>> /\ ~isDrawerVisible' /\ ~shouldRenderDrawer')]_vars
    /\ [][(CloseWaypointDetail \/ CloseEntryDetail) =>
             /\ ~Closed
             /\ Selection' = <<>> /\ ~isDrawerVisible' /\ ~shouldRenderDrawer'
             /\ closeAnims' = closeAnims]_vars
    /\ (closeAnims > 0) ~> Closed

\* C17 witness: a flick downwards started the close animation of the explore
\* screen's drawer; the selection is still there and the drawer visible.
C17_Witness ==
    /\ screen = "explore" /\ lastOp = "flickDown" /\ closeAnims = 1
    /\ selectedWaypoint /= <<>> /\ isDrawerVisible /\ shouldRenderDrawer
    /\ isClosingAnimated /\ ~isExpanded

\* C18 as stated: a release with vy > 0.5 or dy > 100 starts the close;
\* otherwise one with vy < -0.5 or dy < -100 expands a collapsed drawer (for
\* a selection with a post: the loading flag and the fetch); any other release
\* leaves the drawer's state as it was.
C18_ReleaseOutcome ==
    [][\A g \in Gestures :
          Release(g) =>
              IF ClaimCloses(g)
              THEN closeAnims' = closeAnims + 1 /\ Selection' = Selection
              ELSE IF ClaimExpands(g)
              THEN (Collapsed /\ HasPostId(Selection[1])) =>
                       (isLoadingExpanded' /\ detailCalls' = Append(detailCalls, Selection[1]))
              ELSE UNCHANGED DrawerState]_vars

(***************************************************************************)
(* SpecNorm: the coordinate normalisers of BookmarksScreen.waypointData    *)
(* (src/unnamed/part_003) and JournalScreen.userWaypoints applied to a raw *)
(* post                                                                    *)
(***************************************************************************)
\* a raw post: its own coordinate aliases (top) and the sub-objects waypoint,
\* location and coordinates; null and undefined are both Undef
RawPost(top, waypoint, location, coordinates) ==
    [id |-> "p", lat |-> top.lat, latitude |-> top.latitude, lon |-> top.lon,
     lng |-> top.lng, longitude |-> top.longitude, waypoint |-> waypoint,
     location |-> location, coordinates |-> coordinates, likesCount |-> 0]

\* x.lat || x.latitude and x.lon || x.lng || x.longitude
LatAlias(x) == OrElse(x.lat, x.latitude)

LonAlias(x) == OrElse(OrElse(x.lon, x.lng), x.longitude)

\* one "if ((!lat || lat === null) && (!lon || lon === null) && post.sub)" step
TrySubObject(c, sub) ==
    IF ~Truthy(c.lat) /\ ~Truthy(c.lon) /\ sub.present
    THEN [lat |-> LatAlias(sub), lon |-> LonAlias(sub)]
    ELSE c

\* mutant: the sub-objects are never read
BookmarkCoordsTopOnly(post) ==
    [lat |-> OrElse(LatAlias(post), Num(0)), lon |-> OrElse(LonAlias(post), Num(0))]

\* BookmarksScreen.waypointData: top level, then waypoint, location, coordinates
BookmarkCoords(post) ==
    LET c0 == [lat |-> LatAlias(post), lon |-> LonAlias(post)]
        c1 == TrySubObject(c0, post.waypoint)
        c2 == TrySubObject(c1, post.location)
        c3 == TrySubObject(c2, post.coordinates)
    IN  [lat |-> OrElse(c3.lat, Num(0)), lon |-> OrElse(c3.lon, Num(0))]

\* JournalScreen.userWaypoints before its filter: top level, then location
JournalCoords(post) ==
    [lat |-> PostToWaypoint(post).lat, lon |-> PostToWaypoint(post).lon]

\* what one place of a post may hold, b and b + 1 being the place's own values
PlaceChoices(b) ==
    { Location(Undef, Undef, Undef, Undef, Undef),
      Location(Num(b), Undef, Num(b + 1), Undef, Undef),
      Location(Undef, Num(b), Undef, Num(b + 1), Undef),
      Location(Undef, Num(b), Undef, Undef, Num(b + 1)),
      Location(Num(b), Undef, Undef, Undef, Undef),
      Location(Undef, Undef, Undef, Num(b + 1), Undef),
      Location(Num(0), Undef, Num(0), Undef, Undef),
      Location(Num(0), Undef, Num(b + 1), Undef, Undef) }

RawPosts ==
    { RawPost(t, w, l, c) : t \in PlaceChoices(1),
                            w \in PlaceChoices(3) \cup {NoLocation},
                            l \in PlaceChoices(5) \cup {NoLocation},
                            c \in PlaceChoices(7) \cup {NoLocation} }

InitNorm ==
    /\ screen = "none" /\ lastOp = "init"
    /\ IdleMap /\ IdleExplore /\ IdleJournal /\ IdleMerge /\ IdleKey /\ IdleFilter
    /\ IdleDrawer /\ IdleLoad
    /\ alerts = <<>> /\ IdleEngage /\ IdleFollow /\ IdleSubmit /\ IdleSearch
    /\ issueOrder = <<>> /\ lastEntered = <<>>
    /\ nPost \in RawPosts
    /\ nBookmark = <<>> /\ nJournal = <<>> /\ nStage = "in"

NormalizeBookmark ==
    /\ nStage = "in"
    /\ nBookmark' = BookmarkCoords(nPost)
    /\ nStage' = "bookmark"
    /\ UNCHANGED <<screen, lastOp, nPost, nJournal, varsMap, varsExplore, varsJournal,
                   varsMerge, varsKey, varsFilter, varsDrawer, varsLoad, issueOrder, lastEntered, alerts,
                   varsEngage, varsFollow, varsSubmit, varsSearch>>

NormalizeJournal ==
    /\ nStage = "in"
    /\ nJournal' = JournalCoords(nPost)
    /\ nStage' = "journal"
    /\ UNCHANGED <<screen, lastOp, nPost, nBookmark, varsMap, varsExplore, varsJournal,
                   varsMerge, varsKey, varsFilter, varsDrawer, varsLoad, issueOrder, lastEntered, alerts,
                   varsEngage, varsFollow, varsSubmit, varsSearch>>

NextNorm == NormalizeBookmark \/ NormalizeJournal

SpecNorm == InitNorm /\ [][NextNorm]_vars

\* the four places of a post in the stated order
Places(post) ==
    <<[present |-> TRUE, lat |-> post.lat, latitude |-> post.latitude,
       lon |-> post.lon, lng |-> post.lng, longitude |-> post.longitude],
      post.waypoint, post.location, post.coordinates>>

\* the place holds a non-null, non-zero (lat, lon) pair
HoldsPair(place) == place.present /\ Truthy(LatAlias(place)) /\ Truthy(LonAlias(place))

PairPlaces(post) == {i \in 1..4 : HoldsPair(Places(post)[i])}

FirstPairPlace(post) ==
    Places(post)[CHOOSE i \in PairPlaces(post) : \A j \in PairPlaces(post) : i <= j]

\* out is what the stated rule gives for post
FirstPairWins(post, out) ==
    /\ PairPlaces(post) /= {} =>
           /\ out.lat = LatAlias(FirstPairPlace(post))
           /\ out.lon = LonAlias(FirstPairPlace(post))
    /\ (out.lat = Num(0) /\ out.lon = Num(0)) => PairPlaces(post) = {}

\* C21: each normaliser yields the pair of the first of top level, waypoint,
\* location, coordinates that holds a non-null, non-zero (lat, lon) pair, and
\* yields (0, 0) only when none of the four holds one
C21_FirstPairWins ==
    /\ nStage = "bookmark" => FirstPairWins(nPost, nBookmark)
    /\ nStage = "journal" => FirstPairWins(nPost, nJournal)

\* a place holds a whole pair or nothing that is truthy
WholePlace(place) ==
    \/ ~place.present
    \/ HoldsPair(place)
    \/ ~Truthy(LatAlias(place)) /\ ~Truthy(LonAlias(place))

\* C21, BookmarksScreen alone on posts without half-filled places: the rule
\* holds
C21_BookmarksWholePlaces ==
    (nStage = "bookmark" /\ \A i \in 1..4 : WholePlace(Places(nPost)[i]))
        => FirstPairWins(nPost, nBookmark)

\* C21, JournalScreen alone on posts with whole places and nothing under
\* waypoint and coordinates: the rule holds
C21_JournalTwoPlaces ==
    (/\ nStage = "journal"
     /\ \A i \in 1..4 : WholePlace(Places(nPost)[i])
     /\ ~HoldsPair(nPost.waypoint) /\ ~HoldsPair(nPost.coordinates))
        => FirstPairWins(nPost, nJournal)

(***************************************************************************)
(* The mutations: useEngagement behind the like and bookmark buttons of a  *)
(* card, ProfileOverlay's follow button, LogEntryScreen's submission       *)
(***************************************************************************)
\* requests of one component in flight, alerts on record
MaxCalls == 2

MaxAlerts == 2

\* the engagement of the post a card is mounted with (waypoint.post.liked,
\* likesCount, bookmarked, bookmarksCount)
InitialStates ==
    { [liked |-> l, likesCount |-> IF l THEN 1 ELSE 0,
       bookmarked |-> b, bookmarksCount |-> IF b THEN 1 ELSE 0] : l, b \in BOOLEAN }

\* response.likesCount / response.bookmarksCount: missing (0) or a count
ServerCounts == {0, 2}

FlagOf(kind) == IF kind = "like" THEN "liked" ELSE "bookmarked"

CountOf(kind) == IF kind = "like" THEN "likesCount" ELSE "bookmarksCount"

\* handleLike and handleBookmark are memoised on [postId]: the state and the
\* loading flags they read are those of the render that created them, the
\* first render of the card
ClosureState == eInitial

ClosureLoading == NotLoading

\* handleLike / handleBookmark up to the await. preFlag and preCount record
\* the state at the time of the call
HandleToggle(kind) ==
    /\ ~ClosureLoading[kind]
    /\ Len(eCalls) < MaxCalls
    /\ eState' = [eState EXCEPT ![FlagOf(kind)] = ~@,
                                ![CountOf(kind)] =
                                    IF eState[FlagOf(kind)] THEN @ - 1 ELSE @ + 1]
    /\ eLoading' = [eLoading EXCEPT ![kind] = TRUE]
    /\ eCalls' = Append(eCalls, [kind |-> kind, live |-> TRUE,
                                 was |-> ClosureState[FlagOf(kind)],
                                 old |-> ClosureState[CountOf(kind)],
                                 preFlag |-> eState[FlagOf(kind)],
                                 preCount |-> eState[CountOf(kind)]])

\* EngagementButton.handlePress of the like or the bookmark button, disabled
\* while engagement.loading[kind]
EngagementPress(kind) ==
    /\ screen = "card"
    /\ ~eLoading[kind]
    /\ HandleToggle(kind)
    /\ UNCHANGED <<screen, lastOp, varsMap, varsExplore, varsJournal, varsMerge, varsKey,
                   varsFilter, varsDrawer, varsLoad, issueOrder, lastEntered, varsNorm, alerts, eInitial,
                   varsFollow, varsSubmit, varsSearch>>

\* the request of the i-th call resolves with count n; the setters of an
\* unmounted card change nothing
ToggleResolve(i, n) ==
    /\ screen = "card"
    /\ i \in 1..Len(eCalls)
    /\ IF eCalls[i].live
       THEN /\ eState' = [eState EXCEPT ![CountOf(eCalls[i].kind)] = IF n /= 0 THEN n ELSE @]
            /\ eLoading' = [eLoading EXCEPT ![eCalls[i].kind] = FALSE]
       ELSE UNCHANGED <<eState, eLoading>>
    /\ eCalls' = RemoveAt(eCalls, i)
    /\ UNCHANGED <<screen, lastOp, varsMap, varsExplore, varsJournal, varsMerge, varsKey,
                   varsFilter, varsDrawer, varsLoad, issueOrder, lastEntered, varsNorm, alerts, eInitial,
                   varsFollow, varsSubmit, varsSearch>>

\* the request of the i-th call rejects: the rollback and the alert
ToggleReject(i) ==
    /\ screen = "card"
    /\ i \in 1..Len(eCalls)
    /\ Len(alerts) < MaxAlerts
    /\ IF eCalls[i].live
       THEN /\ eState' = [eState EXCEPT ![FlagOf(eCalls[i].kind)] = eCalls[i].was,
                                        ![CountOf(eCalls[i].kind)] = eCalls[i].old]
            /\ eLoading' = [eLoading EXCEPT ![eCalls[i].kind] = FALSE]
       ELSE UNCHANGED <<eState, eLoading>>
    /\ alerts' = Append(alerts, "Error")
    /\ eCalls' = RemoveAt(eCalls, i)
    /\ UNCHANGED <<screen, lastOp, varsMap, varsExplore, varsJournal, varsMerge, varsKey,
                   varsFilter, varsDrawer, varsLoad, issueOrder, lastEntered, varsNorm, eInitial,
                   varsFollow, varsSubmit, varsSearch>>

\* the card of the post is unmounted and another one is mounted for the same
\* post (the card of the list view gives way to the drawer's expanded view,
\* the drawer is closed and opened again): a new hook, the requests of the
\* old one still in flight
Remount(initial) ==
    /\ screen = "card"
    /\ eInitial' = initial
    /\ eState' = initial
    /\ eLoading' = NotLoading
    /\ eCalls' = [i \in 1..Len(eCalls) |-> [eCalls[i] EXCEPT !.live = FALSE]]
    /\ <<eInitial, eState, eLoading, eCalls>>' /= <<eInitial, eState, eLoading, eCalls>>
    /\ UNCHANGED <<screen, lastOp, varsMap, varsExplore, varsJournal, varsMerge, varsKey,
                   varsFilter, varsDrawer, varsLoad, issueOrder, lastEntered, varsNorm, alerts,
                   varsFollow, varsSubmit, varsSearch>>

NextEngage ==
    \/ \E kind \in {"like", "bookmark"} : EngagementPress(kind)
    \/ \E i \in 1..Len(eCalls) : \E n \in ServerCounts : ToggleResolve(i, n)
    \/ \E i \in 1..Len(eCalls) : ToggleReject(i)
    \/ \E initial \in InitialStates : Remount(initial)

\* ProfileOverlay.handleFollowToggle up to the await, from the follow button
\* (disabled while isFollowLoading); the call keeps the isFollowing it read
HandleFollowToggle ==
    /\ screen = "profile"
    /\ ~isFollowLoading
    /\ isFollowLoading' = TRUE
    /\ followCalls' = Append(followCalls, isFollowing)
    /\ UNCHANGED <<screen, lastOp, varsMap, varsExplore, varsJournal, varsMerge, varsKey,
                   varsFilter, varsDrawer, varsLoad, issueOrder, lastEntered, varsNorm, alerts, varsEngage,
                   isFollowing, varsSubmit, varsSearch>>

\* unfollowUser / followUser resolves
FollowResolve ==
    /\ screen = "profile"
    /\ followCalls /= <<>>
    /\ isFollowing' = ~followCalls[1]
    /\ isFollowLoading' = FALSE
    /\ followCalls' = Tail(followCalls)
    /\ UNCHANGED <<screen, lastOp, varsMap, varsExplore, varsJournal, varsMerge, varsKey,
                   varsFilter, varsDrawer, varsLoad, issueOrder, lastEntered, varsNorm, alerts, varsEngage,
                   varsSubmit, varsSearch>>

\* unfollowUser / followUser rejects: console.error, then the finally block
FollowReject ==
    /\ screen = "profile"
    /\ followCalls /= <<>>
    /\ isFollowLoading' = FALSE
    /\ followCalls' = Tail(followCalls)
    /\ UNCHANGED <<screen, lastOp, varsMap, varsExplore, varsJournal, varsMerge, varsKey,
                   varsFilter, varsDrawer, varsLoad, issueOrder, lastEntered, varsNorm, alerts, varsEngage,
                   isFollowing, varsSubmit, varsSearch>>

NextFollow == HandleFollowToggle \/ FollowResolve \/ FollowReject

\* LogEntryScreen.onSubmit up to createPost: the two validations, then the
\* uploads (a failed upload is skipped) and the call
OnSubmit(hasLocation, contentValid) ==
    /\ screen = "logEntry"
    /\ IF ~hasLocation
       THEN /\ Len(alerts) < MaxAlerts
            /\ alerts' = Append(alerts, "Location Required")
            /\ UNCHANGED <<isSubmitting, submitCalls>>
       ELSE IF ~contentValid
       THEN /\ Len(alerts) < MaxAlerts
            /\ alerts' = Append(alerts, "Content Error")
            /\ UNCHANGED <<isSubmitting, submitCalls>>
       ELSE /\ submitCalls < MaxCalls
            /\ isSubmitting' = TRUE
            /\ submitCalls' = submitCalls + 1
            /\ UNCHANGED alerts
    /\ UNCHANGED <<screen, lastOp, varsMap, varsExplore, varsJournal, varsMerge, varsKey,
                   varsFilter, varsDrawer, varsLoad, issueOrder, lastEntered, varsNorm, varsEngage, varsFollow, varsSearch>>

SubmitOutcomes == {"created", "badResponse", "rejected"}

\* createPost settles: the success alert, or the throw and the error alert
SubmitSettle(outcome) ==
    /\ screen = "logEntry"
    /\ submitCalls > 0
    /\ Len(alerts) < MaxAlerts
    /\ alerts' = Append(alerts, IF outcome = "created" THEN "Success!" ELSE "Error")
    /\ isSubmitting' = FALSE
    /\ submitCalls' = submitCalls - 1
    /\ UNCHANGED <<screen, lastOp, varsMap, varsExplore, varsJournal, varsMerge, varsKey,
                   varsFilter, varsDrawer, varsLoad, issueOrder, lastEntered, varsNorm, varsEngage, varsFollow, varsSearch>>

NextSubmit ==
    \/ \E hasLocation, contentValid \in BOOLEAN : OnSubmit(hasLocation, contentValid)
    \/ \E outcome \in SubmitOutcomes : SubmitSettle(outcome)

(***************************************************************************)
(* SpecEngage: one post's card, mounted with any engagement                *)
(***************************************************************************)
CardMounted ==
    /\ eInitial \in InitialStates /\ eState = eInitial /\ eLoading = NotLoading
    /\ eCalls = <<>>

InitEngage ==
    /\ screen = "card" /\ lastOp = "init"
    /\ IdleMap /\ IdleExplore /\ IdleJournal /\ IdleMerge /\ IdleKey /\ IdleFilter
    /\ IdleDrawer /\ IdleLoad /\ IdleNorm /\ alerts = <<>> /\ IdleFollow /\ IdleSubmit
    /\ IdleSearch /\ issueOrder = <<>> /\ lastEntered = <<>> /\ CardMounted

SpecEngage == InitEngage /\ [][NextEngage]_vars

(***************************************************************************)
(* SpecFeedback: what the user is shown when a request fails, on the       *)
(* explore screen, the journal, a card, the profile overlay, the log entry *)
(* screen                                                                  *)
(***************************************************************************)
InitFeedback ==
    \/ InitDrawer
    \/ InitEngage
    \/ /\ screen \in {"profile", "logEntry"} /\ lastOp = "init"
       /\ IdleMap /\ IdleExplore /\ IdleJournal /\ IdleMerge /\ IdleKey /\ IdleFilter
       /\ IdleDrawer /\ IdleLoad /\ IdleNorm /\ alerts = <<>> /\ IdleEngage
       /\ isFollowing \in BOOLEAN /\ isFollowLoading = FALSE /\ followCalls = <<>>
       /\ IdleSubmit /\ IdleSearch /\ issueOrder = <<>> /\ lastEntered = <<>>

\* the journeys of the journal: the tab bar, a journey card, the trip and its
\* posts fetched, the banner's exit
NextJourneys ==
    \/ \E tab \in {"entries", "journeys"} : TabChange(tab)
    \/ \E journey \in Journeys : EnterJourneyMode(journey)
    \/ \E i \in 1..Len(journeyCalls) : \E ok \in BOOLEAN :
           \E enriched \in SUBSET PostIndices(journeyCalls[i]) : JourneyResolve(i, ok, enriched)
    \/ ExitJourneyMode

NextFeedback ==
    \/ NextExploreDrawer
    \/ \E i \in 1..Len(detailCalls) : DetailResolve(i)
    \/ \E i \in 1..Len(detailCalls) : DetailReject(i)
    \/ NextJourneys
    \/ NextEngage
    \/ NextFollow
    \/ NextSubmit

SpecFeedback == InitFeedback /\ [][NextFeedback]_vars

\* a step in which a mutation fails
MutationFails ==
    \/ \E i \in 1..Len(eCalls) : ToggleReject(i)
    \/ FollowReject
    \/ \E outcome \in {"badResponse", "rejected"} : SubmitSettle(outcome)

\* a step in which a read fails: the detail fetch of a drawer, the trip or a
\* post of a journey
ReadFails ==
    \/ \E i \in 1..Len(detailCalls) : DetailReject(i)
    \/ \E i \in 1..Len(journeyCalls) : \E ok \in BOOLEAN :
           \E enriched \in SUBSET PostIndices(journeyCalls[i]) :
               /\ JourneyResolve(i, ok, enriched)
               /\ ~ok \/ enriched /= PostIndices(journeyCalls[i])

\* C22: every failed like, bookmark, follow or unfollow toggle and every
\* failed post submission shows an error alert; a failed detail fetch and a
\* failed journey fetch show none
C22_FailuresAlert ==
    [][/\ MutationFails => alerts' = Append(alerts, "Error")
       /\ ReadFails => alerts' = alerts]_vars

\* C22 without the follow toggle: holds
C22_FailuresAlertButFollow ==
    [][/\ (MutationFails /\ ~FollowReject) => alerts' = Append(alerts, "Error")
       /\ ReadFails => alerts' = alerts]_vars

(***************************************************************************)
(* The explore screen's drawer after a press                               *)
(***************************************************************************)
\* the drawer is on the screen and shows the collapsed card
CardShown == ~Closed /\ ~isLoadingExpanded /\ ~isExpanded

\* the drawer is on the screen and shows the loading text
LoadingShown == ~Closed /\ isLoadingExpanded

\* the drawer shows the record w expanded with the given detail
ExpandedWith(w, detail) ==
    /\ selectedWaypoint = <<w>> /\ shouldRenderDrawer
    /\ isExpanded /\ ~isLoadingExpanded /\ fullEntryData = <<detail>>

PressWithinWindow == centerTimers > 0

\* C24: while a waypoint press lies within the last 1.5 s a change of the
\* map's region leaves the map bounds and the loading switch as they are,
\* whatever number of presses came before; when no press lies within the
\* last 1.5 s the guard is off.
C24_GuardCoversWindow ==
    /\ [][\A region \in Regions :
             (MapRegionChange(region) /\ PressWithinWindow) =>
                 UNCHANGED <<mapBounds, shouldLoadWaypoints, hasMapInteracted>>]_vars
    /\ []((screen = "explore" /\ ~PressWithinWindow) => ~isCenteringFromWaypoint)

\* C24 for a press that no other press preceded by less than 1.5 s: holds
C24_GuardCoversSinglePress ==
    /\ [][\A region \in Regions :
             (MapRegionChange(region) /\ centerTimers = 1 /\ isCenteringFromWaypoint) =>
                 UNCHANGED <<mapBounds, shouldLoadWaypoints, hasMapInteracted>>]_vars
    /\ []((screen = "explore" /\ ~PressWithinWindow) => ~isCenteringFromWaypoint)

(***************************************************************************)
(* SpecSearch: the debounced search box of ExploreScreen and of            *)
(* MapLocationSelectScreen (UserJournalScreen.tsx)                         *)
(***************************************************************************)
\* keystrokes
MaxKeys == 3

\* texts of the search box, as sequences of characters
Queries == {<<>>, <<" ">>, <<"a">>, <<"a", "b">>, <<"a", " ">>}

RECURSIVE TrimStart(_), TrimEnd(_)

TrimStart(q) == IF q /= <<>> /\ Head(q) = " " THEN TrimStart(Tail(q)) ELSE q

TrimEnd(q) ==
    IF q /= <<>> /\ q[Len(q)] = " " THEN TrimEnd(SubSeq(q, 1, Len(q) - 1)) ELSE q

\* query.trim()
Trim(q) == TrimEnd(TrimStart(q))

\* the timers left by clearTimeout(searchTimeoutRef.current)
TimersAfterClear == {t \in searchTimers : t.id /= searchTimeoutRef}

\* mutant: the pending timer is not cleared
HandleSearchQueryChangeNoClear(query) ==
    /\ screen \in {"exploreSearch", "locationSelect"}
    /\ timerCount < MaxKeys
    /\ query /= searchQuery
    /\ searchQuery' = query
    /\ timerCount' = timerCount + 1
    /\ IF Trim(query) = <<>>
       THEN /\ searchTimers' = searchTimers
            /\ searchResults' = <<>>
            /\ showSearchResults' = FALSE
            /\ UNCHANGED searchTimeoutRef
       ELSE /\ searchTimers' = searchTimers \cup {[id |-> timerCount + 1, query |-> query]}
            /\ searchTimeoutRef' = timerCount + 1
            /\ UNCHANGED <<searchResults, showSearchResults>>
    /\ UNCHANGED <<screen, lastOp, varsMap, varsExplore, varsJournal, varsMerge, varsKey,
                   varsFilter, varsDrawer, varsLoad, issueOrder, lastEntered, varsNorm, alerts, varsEngage,
                   varsFollow, varsSubmit, searchCalls, searchIssued, isSearching>>

\* handleSearchQueryChange: a keystroke leaves the text query
HandleSearchQueryChange(query) ==
    /\ screen \in {"exploreSearch", "locationSelect"}
    /\ timerCount < MaxKeys
    /\ query /= searchQuery
    /\ searchQuery' = query
    /\ timerCount' = timerCount + 1
    /\ IF Trim(query) = <<>>
       THEN /\ searchTimers' = TimersAfterClear
            /\ searchResults' = <<>>
            /\ showSearchResults' = FALSE
            /\ UNCHANGED searchTimeoutRef
       ELSE /\ searchTimers' = TimersAfterClear \cup {[id |-> timerCount + 1, query |-> query]}
            /\ searchTimeoutRef' = timerCount + 1
            /\ UNCHANGED <<searchResults, showSearchResults>>
    /\ UNCHANGED <<screen, lastOp, varsMap, varsExplore, varsJournal, varsMerge, varsKey,
                   varsFilter, varsDrawer, varsLoad, issueOrder, lastEntered, varsNorm, alerts, varsEngage,
                   varsFollow, varsSubmit, searchCalls, searchIssued, isSearching>>

\* the 300 ms timer t fires: the geocoding request for the query it closed over
DebounceFire(t) ==
    /\ screen \in {"exploreSearch", "locationSelect"}
    /\ t \in searchTimers
    /\ searchTimers' = searchTimers \ {t}
    /\ isSearching' = TRUE
    /\ searchCalls' = Append(searchCalls, t.query)
    /\ searchIssued' = Append(searchIssued, t.query)
    /\ UNCHANGED <<screen, lastOp, varsMap, varsExplore, varsJournal, varsMerge, varsKey,
                   varsFilter, varsDrawer, varsLoad, issueOrder, lastEntered, varsNorm, alerts, varsEngage,
                   varsFollow, varsSubmit, searchQuery, searchTimeoutRef, timerCount,
                   searchResults, showSearchResults>>

SearchOutcomes == {"features", "notOk", "rejected"}

\* the i-th request in flight settles: the features of its query, a response
\* that is not ok, or a rejection
SearchSettle(i, outcome) ==
    /\ screen \in {"exploreSearch", "locationSelect"}
    /\ i \in 1..Len(searchCalls)
    /\ IF outcome = "features"
       THEN searchResults' = <<searchCalls[i]>> /\ showSearchResults' = TRUE
       ELSE IF outcome = "rejected"
       THEN searchResults' = <<>> /\ showSearchResults' = FALSE
       ELSE UNCHANGED <<searchResults, showSearchResults>>
    /\ isSearching' = FALSE
    /\ searchCalls' = RemoveAt(searchCalls, i)
    /\ UNCHANGED <<screen, lastOp, varsMap, varsExplore, varsJournal, varsMerge, varsKey,
                   varsFilter, varsDrawer, varsLoad, issueOrder, lastEntered, varsNorm, alerts, varsEngage,
                   varsFollow, varsSubmit, searchQuery, searchTimers, searchTimeoutRef,
                   timerCount, searchIssued>>

InitSearch ==
    /\ screen \in {"exploreSearch", "locationSelect"} /\ lastOp = "init"
    /\ IdleMap /\ IdleExplore /\ IdleJournal /\ IdleMerge /\ IdleKey /\ IdleFilter
    /\ IdleDrawer /\ IdleLoad /\ IdleRest

NextSearch ==
    \/ \E query \in Queries : HandleSearchQueryChange(query)
    \/ \E t \in searchTimers : DebounceFire(t)
    \/ \E i \in 1..Len(searchCalls) : \E outcome \in SearchOutcomes : SearchSettle(i, outcome)

SpecSearch == InitSearch /\ [][NextSearch]_vars

\* a timer set with setTimeout fires unless it is cleared
SpecSearchFair == SpecSearch /\ WF_vars(\E t \in searchTimers : DebounceFire(t))

\* C25: a keystroke issues no request; one that leaves the text empty or
\* blank (empty once trimmed) leaves no timer pending, any other leaves its
\* own; at most one timer is pending and it carries the
\* text of the last keystroke, so of a burst of keystrokes each within 300 ms
\* of the one before only the last one's timer is left; a timer that fires
\* issues one request, for the text of the last keystroke; and a pending
\* timer leads to a state with no timer pending in which the text is empty or
\* the last request issued carries the text.
C25_DebounceLastWins ==
    /\ [](/\ Cardinality(searchTimers) <= 1
          /\ \A t \in searchTimers : t.query = searchQuery /\ Trim(t.query) /= <<>>)
    /\ [][\A query \in Queries :
             HandleSearchQueryChange(query) =>
                 /\ searchIssued' = searchIssued
                 /\ Trim(query) = <<>> => searchTimers' = {}
                 /\ Trim(query) /= <<>> => \E t \in searchTimers' : t.query = query]_vars
    /\ [][\A t \in searchTimers :
             DebounceFire(t) =>
                 /\ searchIssued' = Append(searchIssued, searchQuery)
                 /\ searchTimers' = {}]_vars
    /\ (searchTimers /= {}) ~>
           (/\ searchTimers = {}
            /\ \/ Trim(searchQuery) = <<>>
               \/ searchIssued /= <<>> /\ searchIssued[Len(searchIssued)] = searchQuery)

\* C25 as stated, with only the text of no characters counted as empty: a
\* keystroke issues no request, one that leaves the text empty cancels the
\* pending timer and any other leaves a timer for its text, so that a burst
\* ends in one request for the text of its last keystroke.
C25_OnlyEmptyTextSkips ==
    [][\A query \in Queries :
          HandleSearchQueryChange(query) =>
              /\ searchIssued' = searchIssued
              /\ query = <<>> => searchTimers' = {}
              /\ query /= <<>> => \E t \in searchTimers' : t.query = query]_vars

\* C25 witness: after a burst of MaxKeys keystrokes one request has been
\* issued, for the text the last keystroke left.
C25_Witness ==
    /\ timerCount = MaxKeys /\ searchTimers = {}
    /\ Len(searchIssued) = 1 /\ searchIssued[1] = searchQuery

(***************************************************************************)
(* SpecOrder: the explore screen's waypoint query with the order of issue  *)
(* of its fetches on record                                                *)
(***************************************************************************)
NextOrder ==
    \/ MapBecomesReady
    \/ \E region \in Regions : SearchResultSelect(region)
    \/ AnimationDone
    \/ \E region \in Regions : MapRegionChange(region)
    \/ \E mode \in {"global", "following"} : FilterModeChange(mode)
    \/ /\ QueryFetch
       /\ issueOrder' = Append(StillPending(issueOrder),
                               [key |-> QueryKey, state |-> "pending",
                                page |-> <<>>, overtaken |-> FALSE])
    \/ \E k \in inflight : \E page \in QueryPages :
           QueryResolve(k, page) /\ issueOrder' = IssueSettled(k, "resolved", <<page>>)
    \/ \E k \in inflight : QueryReject(k) /\ issueOrder' = IssueSettled(k, "rejected", <<>>)
    \/ MergeEffect

SpecOrder == Init /\ [][NextOrder]_vars

\* the fetch in flight for key k was issued before one that has resolved
Overtaken(k) == issueOrder[PendingIndex(k)].overtaken

\* every record of the page is the record the collection m holds under its key
HoldsPage(m, page) ==
    \A i \in 1..Len(page) :
        \E j \in 1..Len(m) : m[j].key = StableKey(page[i]) /\ m[j].value = page[i]

\* C26: the page of a fetch that resolves while its key is the key of the
\* current query becomes the data the merge effect sees, also when a fetch
\* issued later resolved before it; the page of a fetch that resolves under a
\* key that is not current goes to the cache only, and no merge follows; the
\* merge effect leaves every record of the page it sees in the collection
\* under its identity.
C26_MergedWhileKeyCurrent ==
    /\ [][\A k \in inflight : \A page \in QueryPages :
             QueryResolve(k, page) =>
                 IF k = QueryKey
                 THEN RecentWaypoints' = <<page>>
                 ELSE /\ RecentWaypoints' = RecentWaypoints
                      /\ ~MergePending'
                      /\ CacheData(k)' = <<page>>]_vars
    /\ [][(MergeEffect /\ RecentWaypoints /= <<>>) =>
             HoldsPage(allWaypoints', RecentWaypoints[1])]_vars

\* C26 as stated: when a fetch resolves that was issued before one that has
\* resolved already, its page becomes the data the merge effect sees, and the
\* merge effect then leaves its records in the collection.
C26_MergedInResolveOrder ==
    /\ [][\A k \in inflight : \A page \in QueryPages :
             (QueryResolve(k, page) /\ Overtaken(k)) => RecentWaypoints' = <<page>>]_vars
    /\ [][(MergeEffect /\ RecentWaypoints /= <<>>) =>
             HoldsPage(allWaypoints', RecentWaypoints[1])]_vars

\* C26 witness: a fetch has resolved after one issued later, under a key
\* that was no longer current and with a page other than the one the
\* current key resolved with; no fetch is in flight and the collection holds
\* the page of the current key only.
C26_Witness ==
    /\ Len(issueOrder) = 1 /\ inflight = {}
    /\ issueOrder[1].state = "resolved" /\ issueOrder[1].overtaken
    /\ issueOrder[1].key /= QueryKey
    /\ RecentWaypoints /= <<>> /\ issueOrder[1].page /= RecentWaypoints
    /\ ~MergePending
    /\ allWaypoints = MergePage(EmptyMap, RecentWaypoints[1])
    /\ ~HoldsPage(allWaypoints, issueOrder[1].page[1])

(***************************************************************************)
(* A press while the drawer's close animation runs                         *)
(***************************************************************************)
\* C27: a press of a waypoint while a smooth close animation runs leaves the
\* waypoint selected and the drawer rendered, and the end of that animation
\* after the press leaves the selection and the drawer as they are.
C27_PressDuringCloseStays ==
    /\ [][\A w \in SeqToSet(MapValues(allWaypoints)) : \A fromListView \in BOOLEAN :
             (WaypointPress(w, fromListView) /\ closeAnims > 0) =>
                 (selectedWaypoint' = <<w>> /\ shouldRenderDrawer')]_vars
    /\ [][(CloseAnimationEnd /\ lastOp = "press") =>
             (selectedWaypoint' = selectedWaypoint /\ shouldRenderDrawer')]_vars

\* C27, what the press during the animation comes to: when the animation's
\* callback has run, within the press or at the animation's end, nothing is
\* selected and the drawer is not rendered.
C27_PressDuringCloseIsLost ==
    /\ [][\A w \in SeqToSet(MapValues(allWaypoints)) : \A fromListView \in BOOLEAN :
             (WaypointPress(w, fromListView) /\ closeAnims > 0 /\ closeAnims' = 0) =>
                 (selectedWaypoint' = <<>> /\ ~shouldRenderDrawer')]_vars
    /\ [][(CloseAnimationEnd /\ lastOp = "press") =>
             (selectedWaypoint' = <<>> /\ ~shouldRenderDrawer')]_vars
    /\ [][\A w \in SeqToSet(MapValues(allWaypoints)) :
             (WaypointPress(w, FALSE) /\ closeAnims > 0) => closeAnims' = 0]_vars

(***************************************************************************)
(* Calls of enterJourneyMode that overlap                                  *)
(***************************************************************************)
\* the lists setJourneyWaypoints can receive for a journey
LoadedLists(journey) ==
    {LoadedJourneyWaypoints(journey, ok, enriched) :
        ok \in BOOLEAN, enriched \in SUBSET PostIndices(journey)}

\* every call of enterJourneyMode has settled, and journey mode is on
JourneysSettled ==
    /\ screen = "journal" /\ isJourneyMode
    /\ lastEntered /= <<>> /\ journeyCalls = <<>>

\* C28: once every call of enterJourneyMode has settled, the selected journey
\* is the trip entered last and the list of journey waypoints is a list loaded
\* for that trip.
C28_LastEnteredWins ==
    JourneysSettled =>
        /\ selectedJourney /= <<>> /\ selectedJourney[1].id = lastEntered[1].id
        /\ journeyWaypoints \in LoadedLists(lastEntered[1])

\* C28, replaced and not appended: the list of journey waypoints is at every
\* moment empty or the list loaded by one call for one trip.
C28_ReplacedNotAppended ==
    screen = "journal" =>
        \/ journeyWaypoints = <<>>
        \/ \E journey \in Journeys : journeyWaypoints \in LoadedLists(journey)

\* C28 for the call made last when it settles last: when the only call in
\* flight is the one made last and the selected journey is still its trip,
\* its settling leaves the selected journey and the list those of that trip.
C28_LastEnteredWinsAlone ==
    [][\A ok \in BOOLEAN : \A enriched \in SUBSET {1, 2} :
          (JourneyResolve(1, ok, enriched) /\ journeyCalls = lastEntered
           /\ selectedJourney /= <<>> /\ selectedJourney[1].id = lastEntered[1].id) =>
              /\ selectedJourney'[1].id = lastEntered[1].id
              /\ journeyWaypoints' = LoadedJourneyWaypoints(lastEntered[1], ok, enriched)]_vars

(***************************************************************************)
(* useEngagement: the rollback, and the requests in flight                 *)
(***************************************************************************)
\* C29: when the request of a toggle of a mounted card rejects, the flag and
\* the count of its kind are those the state held when the toggle was
\* invoked.
C29_RollbackToBeforeToggle ==
    [][\A i \in 1..Len(eCalls) : \A c \in {eCalls[i]} :
          (ToggleReject(i) /\ c.live) =>
              /\ eState'[FlagOf(c.kind)] = c.preFlag
              /\ eState'[CountOf(c.kind)] = c.preCount]_vars

\* C29, what the rollback restores: the flag and the count the card was
\* mounted with, and the other kind's flag and count are left as they are.
C29_RollbackToMountState ==
    [][\A i \in 1..Len(eCalls) : \A c \in {eCalls[i]} :
          (ToggleReject(i) /\ c.live) =>
              /\ eState'[FlagOf(c.kind)] = eInitial[FlagOf(c.kind)]
              /\ eState'[CountOf(c.kind)] = eInitial[CountOf(c.kind)]
              /\ \A other \in {"like", "bookmark"} \ {c.kind} :
                    /\ eState'[FlagOf(other)] = eState[FlagOf(other)]
                    /\ eState'[CountOf(other)] = eState[CountOf(other)]]_vars

\* the requests of a kind in flight for the post
InFlight(kind) == {i \in 1..Len(eCalls) : eCalls[i].kind = kind}

\* C30: for the post at most one like request and at most one bookmark
\* request is in flight, and no toggle acts while a request of its kind is
\* in flight.
C30_OneRequestPerKind ==
    /\ [](screen = "card" =>
             \A kind \in {"like", "bookmark"} : Cardinality(InFlight(kind)) <= 1)
    /\ [][\A kind \in {"like", "bookmark"} :
             InFlight(kind) /= {} => ~EngagementPress(kind)]_vars

\* C30 for the buttons of one mounted card: at most one request of a kind
\* issued by the card is in flight, the loading flag of a kind is set exactly
\* while it is, and no press acts meanwhile.
C30_OneRequestPerCard ==
    /\ [](screen = "card" =>
             \A kind \in {"like", "bookmark"} :
                 /\ Cardinality({i \in InFlight(kind) : eCalls[i].live}) <= 1
                 /\ eLoading[kind] <=> \E i \in InFlight(kind) : eCalls[i].live)
    /\ [][\A kind \in {"like", "bookmark"} :
             (\E i \in InFlight(kind) : eCalls[i].live) => ~EngagementPress(kind)]_vars

====
